---- MODULE Spec2Model ----
(***************************************************************************)
(* Model of the Polymarket scanner: the wallet profile cache               *)
(* (WalletAnalyzer), the severity classifier and alert ledger              *)
(* (AlertGenerator), the trade ingestion handler                           *)
(* (PolymarketScanner.process_trade) and the relevance matcher             *)
(* (MarketMatcher / SocialMediaCorrelator).                                *)
(*                                                                         *)
(* Python None is the empty tuple, a present value v is <<v>>.             *)
(* Times are in seconds; a wallet age is kept in seconds and compared with *)
(* hour thresholds multiplied by 3600 (age_hours = age_seconds / 3600).    *)
(* A win rate profitable/total is kept as the pair [p, n].                 *)
(***************************************************************************)
EXTENDS Integers, Sequences, FiniteSets, TLC

VARIABLES
    now,                \* time.time()
    config,             \* the configuration values read by the components
    upstream_activity,  \* data-api /activity answer per wallet
    upstream_positions, \* data-api /positions answer per wallet
    wallet_cache,       \* WalletAnalyzer.wallet_cache
    cache_timestamps,   \* WalletAnalyzer.cache_timestamps
    db_wallet_stats,    \* table wallet_stats
    db_trades,          \* table trades
    db_alerts,          \* table alerts (row id = position)
    processed_trades,   \* PolymarketScanner.processed_trades
    telegram_log,       \* calls received by TelegramBot.send_message
    last,               \* observation: the last operation, its inputs and result
    call_log,           \* observation: time of the latest non-forced upstream query per wallet
    alerts_generated,   \* observation: alerts returned by generate_alert per transaction
    fed_again,          \* observation: transactions fed to process_trade more than once
    store_faulty,       \* environment: whether database writes can raise
    upstream_markets,   \* gamma-api /markets answer
    markets_cache,      \* MarketMatcher.markets_cache, in insertion order
    last_cache_update,  \* MarketMatcher.last_cache_update
    rel_in,             \* the arguments of a direct relevance call
    rel_out,            \* observation: the last relevance or matching call
    processed_news,     \* NewsMarketCorrelator.processed_news
    processed_posts,    \* SocialMediaCorrelator.processed_posts
    reaction_log,       \* observation: the calls of _analyze_market_reaction in the last iteration
    news_matcher,       \* the MarketMatcher NewsMarketCorrelator builds for itself
    correlated,         \* observation: the signal ids handed to market matching once, and again
    loops               \* the state of each polling loop

vars == <<now, config, upstream_activity, upstream_positions, wallet_cache,
          cache_timestamps, db_wallet_stats, db_trades, db_alerts,
          processed_trades, telegram_log, last, call_log, alerts_generated,
          fed_again, store_faulty, upstream_markets, markets_cache,
          last_cache_update, rel_in, rel_out, processed_news, processed_posts,
          reaction_log, news_matcher, correlated, loops>>

correlator_vars == <<processed_news, processed_posts, reaction_log, news_matcher,
                     correlated, loops>>

matcher_vars == <<upstream_markets, markets_cache, last_cache_update, rel_in, rel_out,
                  correlator_vars>>

----------------------------------------------------------------------------
(* Values *)

NoneVal == <<>>
Some(v) == <<v>>
Val(o) == o[1]

Hour == 3600

LARGE_BET == 5000
VERY_LARGE_BET == 10000
HUGE_BET == 50000
NEW_WALLET_HOURS == 168
VERY_NEW_WALLET_HOURS == 24
LOW_TRADE_COUNT == 10
HIGH_WIN_RATE_PCT == 65
cache_ttl == 300
hours_threshold == 168
markets_cache_ttl == 300
social_cache_ttl == 300

Severities == {"LOW", "MEDIUM", "HIGH", "CRITICAL"}

severity_levels == [s \in Severities |->
    CASE s = "LOW" -> 0 [] s = "MEDIUM" -> 1 [] s = "HIGH" -> 2 [] s = "CRITICAL" -> 3]

----------------------------------------------------------------------------
(* Bounds *)

MaxElapsed == 300    \* the clock runs from StartTime to StartTime + MaxElapsed
MaxManyTrades == 10  \* longest run of equal records in an activity answer
MaxWords == 11       \* most long words in a text
MaxMarkets == 6      \* most markets in an answer of the markets API
MaxResends == 2     \* alerts the transport receives in the long-running correlator
MaxRefreshes == 1    \* most times the market cache outlives its time to live

Wallets == {"w1", "w2"}
TxIds == {"tx1", "tx2"}
TimeSteps == {150, 300}

StartTime == 400 * Hour

----------------------------------------------------------------------------
(* Sequence helpers *)

Range(s) == {s[i] : i \in DOMAIN s}

Rep(x, n) == [i \in 1..n |-> x]

\* list(S) for a set of condition ids, in one fixed iteration order
ConditionList == <<"c1", "c2">>
SetToSeq(S) == LET In(c) == c \in S IN SelectSeq(ConditionList, In)

Min2(a, b) == IF a <= b THEN a ELSE b

RECURSIVE SeqMin(_)
SeqMin(s) == IF Len(s) = 1 THEN s[1] ELSE Min2(s[1], SeqMin(Tail(s)))

\* round(a / b) to the nearest integer, ties to even (format spec ".0f")
RoundDiv(a, b) ==
    LET q == a \div b
        r == a % b
    IN IF 2 * r < b THEN q
       ELSE IF 2 * r > b THEN q + 1
       ELSE IF q % 2 = 0 THEN q ELSE q + 1

----------------------------------------------------------------------------
(* Database: tables wallet_stats, trades, alerts *)

\* save_wallet_stats: INSERT OR REPLACE; markets_traded is stored as a JSON list.
\* An exception inside the statement is logged and the table is left as it was.
save_wallet_stats(table, address, stats, dbOk) ==
    IF dbOk
    THEN [table EXCEPT ![address] =
            Some([first_trade_time |-> stats.first_trade_time,
                  total_trades |-> stats.total_trades,
                  markets_traded |-> SetToSeq(stats.markets_traded),
                  win_rate |-> stats.win_rate])]
    ELSE table

\* get_wallet_stats: the row decoded back into a WalletStats, or None
get_wallet_stats(table, address) ==
    IF table[address] = NoneVal THEN NoneVal
    ELSE LET row == Val(table[address])
         IN Some([first_trade_time |-> row.first_trade_time,
                  total_trades |-> row.total_trades,
                  markets_traded |-> Range(row.markets_traded),
                  win_rate |-> row.win_rate])

\* save_trade: INSERT OR IGNORE on the UNIQUE transaction_hash
save_trade(table, trade, dbOk) ==
    IF dbOk /\ \A i \in DOMAIN table : table[i].transaction_hash # trade.transaction_hash
    THEN Append(table, trade)
    ELSE table

\* save_alert: INSERT, returns the new row id, or None when the insert raised
save_alert(table, alert, dbOk) ==
    IF dbOk
    THEN [table |-> Append(table, [alert |-> alert, sent_to_telegram |-> 0]),
          id |-> Some(Len(table) + 1)]
    ELSE [table |-> table, id |-> NoneVal]

\* mark_alert_sent: UPDATE alerts SET sent_to_telegram = 1 WHERE id = ?
mark_alert_sent(table, alert_id) ==
    [i \in DOMAIN table |->
        IF i = alert_id THEN [table[i] EXCEPT !.sent_to_telegram = 1] ELSE table[i]]

----------------------------------------------------------------------------
(* WalletAnalyzer *)

IsTrade(a) == a.type = "TRADE"

\* compute_stats with the win rate of a wallet without positions taken as 0
compute_stats_zero_rate(activity, positions) ==
    LET trades == SelectSeq(activity, IsTrade)
        markets_traded == {trades[i].conditionId : i \in DOMAIN trades} \ {""}
        first_trade_time == IF trades = <<>> THEN 0
                            ELSE SeqMin([i \in DOMAIN trades |-> trades[i].timestamp])
        profitable == Cardinality({i \in DOMAIN positions : positions[i] > 0})
        total_positions == Len(positions)
        win_rate == IF total_positions > 0
                    THEN Some([p |-> profitable, n |-> total_positions])
                    ELSE Some([p |-> 0, n |-> 1])
    IN [first_trade_time |-> first_trade_time,
        total_trades |-> Len(trades),
        markets_traded |-> markets_traded,
        win_rate |-> win_rate]

\* Lines 500-530: the statistics computed from the activity and the positions
compute_stats(activity, positions) ==
    LET trades == SelectSeq(activity, IsTrade)
        markets_traded == {trades[i].conditionId : i \in DOMAIN trades} \ {""}
        first_trade_time == IF trades = <<>> THEN 0
                            ELSE SeqMin([i \in DOMAIN trades |-> trades[i].timestamp])
        profitable == Cardinality({i \in DOMAIN positions : positions[i] > 0})
        total_positions == Len(positions)
        win_rate == IF total_positions > 0
                    THEN Some([p |-> profitable, n |-> total_positions])
                    ELSE NoneVal
    IN [first_trade_time |-> first_trade_time,
        total_trades |-> Len(trades),
        markets_traded |-> markets_traded,
        win_rate |-> win_rate]

\* analyze_wallet_with dropping the wallet's cache entry when the fetch
\* answers no trade
analyze_wallet_with_evicting(wa, wallet_address, force_refresh, t, resp, dbOk, db_stats, stats) ==
    LET stamp == IF wa.cache_timestamps[wallet_address] = NoneVal THEN 0
                 ELSE Val(wa.cache_timestamps[wallet_address])
    IN IF ~force_refresh /\ wa.wallet_cache[wallet_address] # NoneVal
          /\ t - stamp < cache_ttl
       THEN [wa |-> wa, result |-> wa.wallet_cache[wallet_address], fetched |-> FALSE]
       ELSE IF db_stats # NoneVal /\ ~force_refresh
       THEN [wa |-> [wa EXCEPT !.wallet_cache[wallet_address] = db_stats,
                               !.cache_timestamps[wallet_address] = Some(t)],
             result |-> db_stats, fetched |-> FALSE]
       ELSE IF resp.activity = <<>> \/ SelectSeq(resp.activity, IsTrade) = <<>>
       THEN [wa |-> [wa EXCEPT !.wallet_cache[wallet_address] = NoneVal,
                               !.cache_timestamps[wallet_address] = NoneVal],
             result |-> NoneVal, fetched |-> TRUE]
       ELSE [wa |-> [wallet_cache |-> [wa.wallet_cache EXCEPT ![wallet_address] = Some(stats)],
                     cache_timestamps |-> [wa.cache_timestamps EXCEPT ![wallet_address] = Some(t)],
                     db_wallet_stats |-> save_wallet_stats(wa.db_wallet_stats, wallet_address, stats, dbOk)],
             result |-> Some(stats), fetched |-> TRUE]

\* Lines 481-537 of analyze_wallet, given the row get_wallet_stats returns and
\* the statistics the API answers amount to
analyze_wallet_with(wa, wallet_address, force_refresh, t, resp, dbOk, db_stats, stats) ==
    LET stamp == IF wa.cache_timestamps[wallet_address] = NoneVal THEN 0
                 ELSE Val(wa.cache_timestamps[wallet_address])
    IN IF ~force_refresh /\ wa.wallet_cache[wallet_address] # NoneVal
          /\ t - stamp < cache_ttl
       THEN [wa |-> wa, result |-> wa.wallet_cache[wallet_address], fetched |-> FALSE]
       ELSE IF db_stats # NoneVal /\ ~force_refresh
       THEN [wa |-> [wa EXCEPT !.wallet_cache[wallet_address] = db_stats,
                               !.cache_timestamps[wallet_address] = Some(t)],
             result |-> db_stats, fetched |-> FALSE]
       ELSE IF resp.activity = <<>> \/ SelectSeq(resp.activity, IsTrade) = <<>>
       THEN [wa |-> wa, result |-> NoneVal, fetched |-> TRUE]
       ELSE [wa |-> [wallet_cache |-> [wa.wallet_cache EXCEPT ![wallet_address] = Some(stats)],
                     cache_timestamps |-> [wa.cache_timestamps EXCEPT ![wallet_address] = Some(t)],
                     db_wallet_stats |-> save_wallet_stats(wa.db_wallet_stats, wallet_address, stats, dbOk)],
             result |-> Some(stats), fetched |-> TRUE]

\* analyze_wallet on the analyzer state wa = [wallet_cache, cache_timestamps,
\* db_wallet_stats]; resp is what the two API calls answer if they are made.
\* Returns the new state, the result and whether /activity was queried.
analyze_wallet(wa, wallet_address, force_refresh, t, resp, dbOk) ==
    analyze_wallet_with(wa, wallet_address, force_refresh, t, resp, dbOk,
                        get_wallet_stats(wa.db_wallet_stats, wallet_address),
                        compute_stats(resp.activity, resp.positions))

\* is_new_wallet_of without the test of the first trade time
is_new_wallet_of_any_time(t, r) ==
    IF r.result = NoneVal
    THEN [wa |-> r.wa, is_new |-> TRUE, age |-> NoneVal, fetched |-> r.fetched]
    ELSE [wa |-> r.wa,
          is_new |-> t - Val(r.result).first_trade_time < hours_threshold * Hour,
          age |-> Some(t - Val(r.result).first_trade_time),
          fetched |-> r.fetched]

\* Lines 546-553 of is_new_wallet, given the analysis r; the age is in seconds,
\* age_hours < h is age < h * Hour
is_new_wallet_of(t, r) ==
    IF r.result = NoneVal \/ Val(r.result).first_trade_time = 0
    THEN [wa |-> r.wa, is_new |-> TRUE, age |-> NoneVal, fetched |-> r.fetched]
    ELSE [wa |-> r.wa,
          is_new |-> t - Val(r.result).first_trade_time < hours_threshold * Hour,
          age |-> Some(t - Val(r.result).first_trade_time),
          fetched |-> r.fetched]

\* is_new_wallet: (is_new, age) from a further analyze_wallet call
is_new_wallet(wa, wallet_address, t, resp, dbOk) ==
    is_new_wallet_of(t, analyze_wallet(wa, wallet_address, FALSE, t, resp, dbOk))

----------------------------------------------------------------------------
(* AlertGenerator *)

\* base_tier with the last branch taken by every remaining value
base_tier_no_floor(usdc_value) ==
    IF usdc_value >= HUGE_BET
    THEN [alert_type |-> Some("HUGE_BET"), severity |-> "CRITICAL", text |-> "Huge"]
    ELSE IF usdc_value >= VERY_LARGE_BET
    THEN [alert_type |-> Some("VERY_LARGE_BET"), severity |-> "HIGH", text |-> "Very large"]
    ELSE [alert_type |-> Some("LARGE_BET"), severity |-> "MEDIUM", text |-> "Large"]

\* base_tier with the tiers tested from the lowest up
base_tier_lowest_first(usdc_value) ==
    IF usdc_value < LARGE_BET
    THEN [alert_type |-> NoneVal, severity |-> "LOW", text |-> ""]
    ELSE IF usdc_value >= LARGE_BET
    THEN [alert_type |-> Some("LARGE_BET"), severity |-> "MEDIUM", text |-> "Large"]
    ELSE IF usdc_value >= VERY_LARGE_BET
    THEN [alert_type |-> Some("VERY_LARGE_BET"), severity |-> "HIGH", text |-> "Very large"]
    ELSE [alert_type |-> Some("HUGE_BET"), severity |-> "CRITICAL", text |-> "Huge"]

\* Lines 594-613: the bet size thresholds, first match wins
base_tier(usdc_value) ==
    IF usdc_value >= HUGE_BET
    THEN [alert_type |-> Some("HUGE_BET"), severity |-> "CRITICAL", text |-> "Huge"]
    ELSE IF usdc_value >= VERY_LARGE_BET
    THEN [alert_type |-> Some("VERY_LARGE_BET"), severity |-> "HIGH", text |-> "Very large"]
    ELSE IF usdc_value >= LARGE_BET
    THEN [alert_type |-> Some("LARGE_BET"), severity |-> "MEDIUM", text |-> "Large"]
    ELSE [alert_type |-> NoneVal, severity |-> "LOW", text |-> ""]

\* Lines 619-623: new wallet with large bet, for the configured
\* NEW_WALLET_HOURS and VERY_NEW_WALLET_HOURS (lines 569-570); "age_hours" is
\* falsy for None and for 0
rule_new_wallet_at(severity, is_new, age, new_wallet_hours, very_new_wallet_hours) ==
    IF is_new /\ age # NoneVal /\ Val(age) # 0 /\ Val(age) < new_wallet_hours * Hour
    THEN [severity |-> IF Val(age) < very_new_wallet_hours * Hour THEN "CRITICAL" ELSE severity,
          flags |-> <<[flag |-> "New wallet", n |-> RoundDiv(Val(age), Hour)]>>]
    ELSE [severity |-> severity, flags |-> <<>>]

\* the rule with the thresholds of config.example.py and of lines 580-581
rule_new_wallet(severity, is_new, age) ==
    rule_new_wallet_at(severity, is_new, age, NEW_WALLET_HOURS, VERY_NEW_WALLET_HOURS)

\* rule_low_trade_count setting HIGH without looking at the current severity
rule_low_trade_count_unguarded(severity, stats) ==
    IF stats.total_trades < LOW_TRADE_COUNT
    THEN [severity |-> "HIGH",
          flags |-> <<[flag |-> "Only trades", n |-> stats.total_trades]>>]
    ELSE [severity |-> severity, flags |-> <<>>]

\* rule_low_trade_count firing at the threshold as well
rule_low_trade_count_inclusive(severity, stats) ==
    IF stats.total_trades <= LOW_TRADE_COUNT
    THEN [severity |-> IF severity = "MEDIUM" THEN "HIGH" ELSE severity,
          flags |-> <<[flag |-> "Only trades", n |-> stats.total_trades]>>]
    ELSE [severity |-> severity, flags |-> <<>>]

\* Lines 625-629: low trade count
rule_low_trade_count(severity, stats) ==
    IF stats.total_trades < LOW_TRADE_COUNT
    THEN [severity |-> IF severity = "MEDIUM" THEN "HIGH" ELSE severity,
          flags |-> <<[flag |-> "Only trades", n |-> stats.total_trades]>>]
    ELSE [severity |-> severity, flags |-> <<>>]

\* rule_high_win_rate setting HIGH without looking at the current severity
rule_high_win_rate_unguarded(severity, stats) ==
    IF stats.win_rate # NoneVal /\ Val(stats.win_rate).p # 0
       /\ Val(stats.win_rate).p * 100 > HIGH_WIN_RATE_PCT * Val(stats.win_rate).n
    THEN [severity |-> "HIGH",
          flags |-> <<[flag |-> "High win rate",
                       n |-> RoundDiv(Val(stats.win_rate).p * 100, Val(stats.win_rate).n)]>>]
    ELSE [severity |-> severity, flags |-> <<>>]

\* Lines 631-635: high win rate (None and 0.0 are both falsy)
rule_high_win_rate(severity, stats) ==
    IF stats.win_rate # NoneVal /\ Val(stats.win_rate).p # 0
       /\ Val(stats.win_rate).p * 100 > HIGH_WIN_RATE_PCT * Val(stats.win_rate).n
    THEN [severity |-> IF severity = "MEDIUM" THEN "HIGH" ELSE severity,
          flags |-> <<[flag |-> "High win rate",
                       n |-> RoundDiv(Val(stats.win_rate).p * 100, Val(stats.win_rate).n)]>>]
    ELSE [severity |-> severity, flags |-> <<>>]

\* rule_single_market raising MEDIUM to HIGH as the two rules before it do
rule_single_market_soft(severity, stats) ==
    IF Cardinality(stats.markets_traded) = 1
    THEN [severity |-> IF severity = "MEDIUM" THEN "HIGH" ELSE severity,
          flags |-> <<[flag |-> "Only trades this market", n |-> 0]>>]
    ELSE [severity |-> severity, flags |-> <<>>]

\* Lines 637-640: single market focus
rule_single_market(severity, stats) ==
    IF Cardinality(stats.markets_traded) = 1
    THEN [severity |-> "CRITICAL", flags |-> <<[flag |-> "Only trades this market", n |-> 0]>>]
    ELSE [severity |-> severity, flags |-> <<>>]

\* escalate with the flags of the wallet's age appended last
escalate_age_last(severity, wallet_stats, is_new, age) ==
    IF wallet_stats = NoneVal THEN [severity |-> severity, flags |-> <<>>]
    ELSE LET stats == Val(wallet_stats)
             r1 == rule_new_wallet(severity, is_new, age)
             r2 == rule_low_trade_count(r1.severity, stats)
             r3 == rule_high_win_rate(r2.severity, stats)
             r4 == rule_single_market(r3.severity, stats)
         IN [severity |-> r4.severity,
             flags |-> r2.flags \o r3.flags \o r4.flags \o r1.flags]

\* escalate treating a wallet without profile as a new wallet
escalate_unknown_wallet(severity, wallet_stats, is_new, age) ==
    IF wallet_stats = NoneVal
    THEN [severity |-> IF severity = "MEDIUM" THEN "HIGH" ELSE severity,
          flags |-> <<[flag |-> "New wallet", n |-> 0]>>]
    ELSE LET stats == Val(wallet_stats)
             r1 == rule_new_wallet(severity, is_new, age)
             r2 == rule_low_trade_count(r1.severity, stats)
             r3 == rule_high_win_rate(r2.severity, stats)
             r4 == rule_single_market(r3.severity, stats)
         IN [severity |-> r4.severity,
             flags |-> r1.flags \o r2.flags \o r3.flags \o r4.flags]

\* Lines 615-640: the rules applied in sequence to the shared severity
escalate(severity, wallet_stats, is_new, age) ==
    IF wallet_stats = NoneVal THEN [severity |-> severity, flags |-> <<>>]
    ELSE LET stats == Val(wallet_stats)
             r1 == rule_new_wallet(severity, is_new, age)
             r2 == rule_low_trade_count(r1.severity, stats)
             r3 == rule_high_win_rate(r2.severity, stats)
             r4 == rule_single_market(r3.severity, stats)
         IN [severity |-> r4.severity,
             flags |-> r1.flags \o r2.flags \o r3.flags \o r4.flags]

\* Lines 594-664 of generate_alert, given the two analyses a1 and a2
generate_alert_rules(trade, a1, a2) ==
    LET wallet_stats == a1.result
        base == base_tier(trade.usdc_value)
        esc == escalate(base.severity, wallet_stats, a2.is_new, a2.age)
    IN [wa |-> a2.wa,
        alert |-> IF base.alert_type = NoneVal THEN NoneVal
                  ELSE Some([alert_type |-> Val(base.alert_type),
                             severity |-> esc.severity,
                             wallet_address |-> trade.wallet_address,
                             trade_size |-> trade.usdc_value,
                             wallet_age_hours |-> a2.age,
                             wallet_total_trades |-> IF wallet_stats # NoneVal
                                                     THEN Val(wallet_stats).total_trades ELSE 0,
                             wallet_win_rate |-> IF wallet_stats # NoneVal
                                                 THEN Val(wallet_stats).win_rate ELSE NoneVal,
                             reason |-> [text |-> base.text, value |-> trade.usdc_value,
                                         flags |-> esc.flags],
                             timestamp |-> trade.timestamp]),
        wallet_stats |-> wallet_stats,
        fetches |-> <<a1.fetched, a2.fetched>>]

\* Line 592 of generate_alert and what follows, given the first analysis a1
generate_alert_second(trade, t, resp2, dbOk, a1) ==
    generate_alert_rules(trade, a1,
                         is_new_wallet(a1.wa, trade.wallet_address, t, resp2, dbOk))

\* generate_alert: two wallet analyses (lines 591-592), then the tiers and the
\* escalation. resp1/resp2 are the API answers available to the two analyses.
generate_alert(wa, trade, t, resp1, resp2, dbOk) ==
    generate_alert_second(trade, t, resp2, dbOk,
                          analyze_wallet(wa, trade.wallet_address, FALSE, t, resp1, dbOk))

\* format_alert raises TypeError on the format fields of a None age
\* ("{alert.wallet_age_hours:.1f}") and of a None win rate
\* ("{alert.wallet_win_rate*100:.1f}")
format_alert_raises(alert) ==
    alert.wallet_age_hours = NoneVal \/ alert.wallet_win_rate = NoneVal

\* send_alert calling the transport a second time when the first call failed
send_alert_retry(lg, alert, cfg, dbOk, tgOk) ==
    LET min_level == severity_levels[cfg.MIN_SEVERITY]
        alert_level == severity_levels[alert.severity]
        saved == save_alert(lg.db_alerts, alert, dbOk)
        entry == [alert_id |-> Val(saved.id), ok |-> tgOk]
    IN IF alert_level < min_level
       THEN [lg |-> lg, raised |-> FALSE, result |-> NoneVal]
       ELSE IF saved.id # NoneVal /\ cfg.telegram
       THEN IF format_alert_raises(alert)
            THEN [lg |-> [lg EXCEPT !.db_alerts = saved.table], raised |-> TRUE, result |-> NoneVal]
            ELSE [lg |-> [db_alerts |-> IF tgOk THEN mark_alert_sent(saved.table, Val(saved.id))
                                        ELSE saved.table,
                          telegram_log |-> IF tgOk THEN Append(lg.telegram_log, entry)
                                           ELSE lg.telegram_log \o <<entry, entry>>],
                  raised |-> FALSE, result |-> NoneVal]
       ELSE [lg |-> [lg EXCEPT !.db_alerts = saved.table], raised |-> FALSE, result |-> NoneVal]

\* send_alert marking the row whatever the transport answered
send_alert_marks_always(lg, alert, cfg, dbOk, tgOk) ==
    LET min_level == severity_levels[cfg.MIN_SEVERITY]
        alert_level == severity_levels[alert.severity]
        saved == save_alert(lg.db_alerts, alert, dbOk)
    IN IF alert_level < min_level
       THEN [lg |-> lg, raised |-> FALSE, result |-> NoneVal]
       ELSE IF saved.id # NoneVal /\ cfg.telegram
       THEN IF format_alert_raises(alert)
            THEN [lg |-> [lg EXCEPT !.db_alerts = saved.table], raised |-> TRUE, result |-> NoneVal]
            ELSE [lg |-> [db_alerts |-> mark_alert_sent(saved.table, Val(saved.id)),
                          telegram_log |-> Append(lg.telegram_log,
                                                  [alert_id |-> Val(saved.id), ok |-> tgOk])],
                  raised |-> FALSE, result |-> NoneVal]
       ELSE [lg |-> [lg EXCEPT !.db_alerts = saved.table], raised |-> FALSE, result |-> NoneVal]

\* send_alert on the ledger state lg = [db_alerts, telegram_log]; tgOk is the
\* answer of the transport if it is called; result is what the caller gets
\* back (the method has no return statement with a value)
send_alert(lg, alert, cfg, dbOk, tgOk) ==
    LET min_level == severity_levels[cfg.MIN_SEVERITY]
        alert_level == severity_levels[alert.severity]
        saved == save_alert(lg.db_alerts, alert, dbOk)
    IN IF alert_level < min_level
       THEN [lg |-> lg, raised |-> FALSE, result |-> NoneVal]
       ELSE IF saved.id # NoneVal /\ cfg.telegram
       THEN IF format_alert_raises(alert)
            THEN [lg |-> [lg EXCEPT !.db_alerts = saved.table], raised |-> TRUE, result |-> NoneVal]
            ELSE [lg |-> [db_alerts |-> IF tgOk THEN mark_alert_sent(saved.table, Val(saved.id))
                                        ELSE saved.table,
                          telegram_log |-> Append(lg.telegram_log,
                                                  [alert_id |-> Val(saved.id), ok |-> tgOk])],
                  raised |-> FALSE, result |-> NoneVal]
       ELSE [lg |-> [lg EXCEPT !.db_alerts = saved.table], raised |-> FALSE, result |-> NoneVal]

----------------------------------------------------------------------------
(* Text: a string is the tuple of its characters *)

UpperChars == <<"A", "B", "C", "D", "E", "F", "G", "H", "I", "J", "K", "L", "M",
                "N", "O", "P", "Q", "R", "S", "T", "U", "V", "W", "X", "Y", "Z">>
LowerChars == <<"a", "b", "c", "d", "e", "f", "g", "h", "i", "j", "k", "l", "m",
                "n", "o", "p", "q", "r", "s", "t", "u", "v", "w", "x", "y", "z">>
DigitChars == {"0", "1", "2", "3", "4", "5", "6", "7", "8", "9"}

\* The character classes of str.isupper, str.islower, \w and str.lower as
\* tables over the alphabet above.
CharClass ==
    [Upper |-> {UpperChars[i] : i \in DOMAIN UpperChars},
     Lower |-> {LowerChars[i] : i \in DOMAIN LowerChars},
     Word |-> {UpperChars[i] : i \in DOMAIN UpperChars}
                  \cup {LowerChars[i] : i \in DOMAIN LowerChars}
                  \cup DigitChars \cup {"_"},
     ToLower |-> [c \in {UpperChars[i] : i \in DOMAIN UpperChars} |->
                     LowerChars[CHOOSE i \in DOMAIN UpperChars : UpperChars[i] = c]]]
IsUpperChar(c) == c \in CharClass.Upper
IsLowerChar(c) == c \in CharClass.Lower
\* \w
IsWordChar(c) == c \in CharClass.Word
\* \s
IsSpaceChar(c) == c = " "

LowerChar(c) ==
    IF IsUpperChar(c)
    THEN CharClass.ToLower[c]
    ELSE c

\* str.lower()
lower(text) == [i \in DOMAIN text |-> LowerChar(text[i])]

\* "k in text"
contains(k, text) ==
    \E i \in 0..(Len(text) - Len(k)) : SubSeq(text, i + 1, i + Len(k)) = k

\* f"{a} {b}"
joined(a, b) == a \o <<" ">> \o b

\* a maximal run of word characters starts at i
IsRunStart(text, i) == IsWordChar(text[i]) /\ (i = 1 \/ ~IsWordChar(text[i - 1]))

RECURSIVE RunEnd(_, _)
RunEnd(text, i) ==
    IF i < Len(text) /\ IsWordChar(text[i + 1]) THEN RunEnd(text, i + 1) ELSE i

\* set(re.findall(r'\b\w{4,}\b', text))
words4(text) ==
    {SubSeq(text, i, RunEnd(text, i)) :
        i \in {k \in DOMAIN text : IsRunStart(text, k) /\ RunEnd(text, k) - k + 1 >= 4}}

\* [A-Z][a-z]+ between two word boundaries, at i
CapWordAt(text, i) ==
    /\ IsRunStart(text, i)
    /\ IsUpperChar(text[i])
    /\ RunEnd(text, i) > i
    /\ \A k \in (i + 1)..RunEnd(text, i) : IsLowerChar(text[k])

RECURSIVE SpaceEnd(_, _)
SpaceEnd(text, j) ==
    IF j < Len(text) /\ IsSpaceChar(text[j + 1]) THEN SpaceEnd(text, j + 1) ELSE j

\* the end of the longest "(?:\s+[A-Z][a-z]+)*" continuation of the word at i
RECURSIVE ChainEnd(_, _)
ChainEnd(text, i) ==
    LET j == RunEnd(text, i)
        k == SpaceEnd(text, j)
    IN IF k > j /\ k < Len(text) /\ CapWordAt(text, k + 1)
       THEN ChainEnd(text, k + 1) ELSE j

\* the word at i continues a chain that started at an earlier word
ContinuesChain(text, i) ==
    \E j \in 1..(i - 1) :
        /\ CapWordAt(text, j)
        /\ RunEnd(text, j) < i - 1
        /\ \A k \in (RunEnd(text, j) + 1)..(i - 1) : IsSpaceChar(text[k])

\* MarketMatcher._extract_entities:
\* set(re.findall(r'\b[A-Z][a-z]+(?:\s+[A-Z][a-z]+)*\b', text))
extract_entities(text) ==
    {SubSeq(text, i, ChainEnd(text, i)) :
        i \in {k \in DOMAIN text : CapWordAt(text, k) /\ ~ContinuesChain(text, k)}}

\* the texts used below, character by character
Text ==
    [FedFedText |->   \* "Fed fed"
        <<"F", "e", "d", " ", "f", "e", "d">>,
     BitcoinEtfPriceText |->   \* "Bitcoin ETF price"
        <<"B", "i", "t", "c", "o", "i", "n", " ", "E", "T", "F", " ", "p", "r", "i", "c", "e">>,
     BitcoinVoteText |->   \* "Bitcoin vote"
        <<"B", "i", "t", "c", "o", "i", "n", " ", "v", "o", "t", "e">>,
     BitcoinEtfLowerText |->   \* "bitcoin etf"
        <<"b", "i", "t", "c", "o", "i", "n", " ", "e", "t", "f">>,
     BitcoinEtfText |->   \* "Bitcoin ETF"
        <<"B", "i", "t", "c", "o", "i", "n", " ", "E", "T", "F">>,
     SecQuestionText |->   \* "Will the SEC approve a Bitcoin ETF in 2025?"
        <<"W", "i", "l", "l", " ", "t", "h", "e", " ", "S", "E", "C", " ", "a", "p", "p", "r", "o", "v", "e",
          " ", "a", " ", "B", "i", "t", "c", "o", "i", "n", " ", "E", "T", "F", " ", "i", "n", " ", "2", "0",
          "2", "5", "?">>,
     BitcoinLowerWord |->   \* "bitcoin"
        <<"b", "i", "t", "c", "o", "i", "n">>,
     EtfLowerWord |->   \* "etf"
        <<"e", "t", "f">>,
     SecLowerWord |->   \* "sec"
        <<"s", "e", "c">>,
     FedLowerWord |->   \* "fed"
        <<"f", "e", "d">>,
     BitcoinWord |->   \* "Bitcoin"
        <<"B", "i", "t", "c", "o", "i", "n">>,
     EtfWord |->   \* "ETF"
        <<"E", "T", "F">>,
     FedWord |->   \* "Fed"
        <<"F", "e", "d">>,
     OtherWord |->   \* "zzzz"
        <<"z", "z", "z", "z">>,
     TrumpLowerName |->   \* "realdonaldtrump"
        <<"r", "e", "a", "l", "d", "o", "n", "a", "l", "d", "t", "r", "u", "m", "p">>,
     TrumpName |->   \* "realDonaldTrump"
        <<"r", "e", "a", "l", "D", "o", "n", "a", "l", "d", "T", "r", "u", "m", "p">>,
     MuskName |->   \* "elonmusk"
        <<"e", "l", "o", "n", "m", "u", "s", "k">>,
     UnknownName |->   \* "nobody"
        <<"n", "o", "b", "o", "d", "y">>,
     PriceWord |->   \* "price"
        <<"p", "r", "i", "c", "e">>,
     BidenName |->   \* "JoeBiden"
        <<"J", "o", "e", "B", "i", "d", "e", "n">>,
     FedReserveName |->   \* "federalreserve"
        <<"f", "e", "d", "e", "r", "a", "l", "r", "e", "s", "e", "r", "v", "e">>,
     BidenLowerName |->   \* "joebiden"
        <<"j", "o", "e", "b", "i", "d", "e", "n">>,
     VitalikName |->   \* "VitalikButerin"
        <<"V", "i", "t", "a", "l", "i", "k", "B", "u", "t", "e", "r", "i", "n">>]

----------------------------------------------------------------------------
(* Relevance: a score x is kept as the integer x * Scale; Scale is a multiple *)
(* of 10 and of every keyword and entity count up to 6, so the divisions     *)
(* below are exact                                                           *)

Scale == 6000
KeywordWeight == 2400   \* 0.4
OverlapWeight == 1800   \* 0.3
EntityWeight == 1800    \* 0.3

\* "Keyword matching (40% weight)": news_correlator.py 260-265 lower-cases
\* the keywords, social_monitor.py 414-417 takes them as they are; the
\* number of keywords found in the market text, over their number, times 0.4
keyword_score(kind, market_text, keywords) ==
    IF keywords = <<>> THEN 0
    ELSE Min2((Cardinality({i \in DOMAIN keywords :
                   contains(IF kind = "news" THEN lower(keywords[i]) ELSE keywords[i],
                            market_text)})
                 * KeywordWeight) \div Len(keywords),
              KeywordWeight)

\* "Word overlap (30% weight)": the words of four and more characters the
\* two texts share, a tenth of the weight for each, up to ten
overlap_score(signal_text, market_text) ==
    IF words4(signal_text) # {} /\ words4(market_text) # {}
    THEN Min2(Cardinality(words4(signal_text) \cap words4(market_text)), 10)
             * (OverlapWeight \div 10)
    ELSE 0

\* MarketMatcher._calculate_relevance with the entity weight of 0.4
calculate_relevance_weights(news_text, market_text, keywords) ==
    LET entities == extract_entities(news_text)
        entity_matches == Cardinality({e \in entities : contains(e, market_text)})
        entity_score == IF entities # {}
                        THEN Min2((entity_matches * KeywordWeight) \div Cardinality(entities),
                                  KeywordWeight)
                        ELSE 0
    IN keyword_score("news", market_text, keywords)
       + overlap_score(news_text, market_text) + entity_score

\* MarketMatcher._calculate_relevance (keywords None and [] are both <<>>)
calculate_relevance(news_text, market_text, keywords) ==
    LET entities == extract_entities(news_text)
        entity_matches == Cardinality({e \in entities : contains(e, market_text)})
        entity_score == IF entities # {}
                        THEN Min2((entity_matches * EntityWeight) \div Cardinality(entities),
                                  EntityWeight)
                        ELSE 0
    IN keyword_score("news", market_text, keywords)
       + overlap_score(news_text, market_text) + entity_score

\* the table "influential" of SocialMediaCorrelator._calculate_relevance
InfluentialNames ==
    <<Text.TrumpName, Text.BidenName, Text.MuskName, Text.FedReserveName, Text.VitalikName>>
InfluentialBoost == <<1800, 1800, 1500, 1200, 900>>   \* 0.3, 0.3, 0.25, 0.2, 0.15
DefaultBoost == 600                                    \* 0.1

\* influential.get(username, 0.1)
influential_get(username) ==
    IF \E i \in DOMAIN InfluentialNames : InfluentialNames[i] = username
    THEN InfluentialBoost[CHOOSE i \in DOMAIN InfluentialNames : InfluentialNames[i] = username]
    ELSE DefaultBoost

\* SocialMediaCorrelator._calculate_relevance
social_calculate_relevance(post_text, market_text, keywords, username) ==
    LET bonus == IF \E i \in DOMAIN InfluentialNames :
                        lower(InfluentialNames[i]) = lower(username)
                 THEN influential_get(username) ELSE 0
    IN Min2(keyword_score("social", market_text, keywords)
            + overlap_score(post_text, market_text) + bonus, Scale)

----------------------------------------------------------------------------
(* Environment: what the upstream APIs can answer *)

TradeRec(c, ts) == [type |-> "TRADE", conditionId |-> c, timestamp |-> ts]

NoProfile == [activity |-> <<>>, positions |-> <<>>]

\* many trades on two markets, 200 hours old, two of three positions profitable
SeasonedProfile ==
    [activity |-> Rep(TradeRec("c1", StartTime - 200 * Hour), MaxManyTrades)
                  \o <<TradeRec("c2", StartTime - 100 * Hour)>>,
     positions |-> <<1, 1, -1>>]

\* many trades on two markets, 200 hours old, one of two positions profitable
PlainProfile ==
    [activity |-> Rep(TradeRec("c1", StartTime - 200 * Hour), MaxManyTrades)
                  \o <<TradeRec("c2", StartTime - 100 * Hour)>>,
     positions |-> <<1, -1>>]

\* the inputs of the scanner: the upstream data of the two wallets, the
\* configured MIN_ALERT_SEVERITY and the values of the trades
Main ==
    [Upstream |-> {f \in [Wallets -> {NoProfile, SeasonedProfile, PlainProfile}] :
                      f["w2"] = SeasonedProfile},
     Floors |-> {"MEDIUM", "HIGH"},
     Values |-> {LARGE_BET - 1, LARGE_BET, HUGE_BET}]

\* the trades upstream: the wallet of a transaction and the sizes it can have
TradeWallet(tx) == IF tx = "tx2" THEN "w2" ELSE "w1"
TradeValues(tx) == IF tx = "tx2" THEN {LARGE_BET, HUGE_BET} ELSE Main.Values

\* the outcomes of TelegramBot.send_message that make a difference
SendOutcomes == IF config.telegram THEN BOOLEAN ELSE {TRUE}

\* the answers of get_wallet_activity / get_wallet_positions: the upstream data,
\* or [] when the request raised
Responses(w) ==
    {[activity |-> upstream_activity[w], positions |-> upstream_positions[w]],
     [activity |-> upstream_activity[w], positions |-> <<>>],
     [activity |-> <<>>, positions |-> <<>>]}

\* both requests answered
FullResponse(w) == [activity |-> upstream_activity[w], positions |-> upstream_positions[w]]

\* the answers the second analysis of generate_alert can get: it queries the
\* API only when the first analysis found nothing, else the answer is not used
Responses2(w, t, resp1) ==
    IF analyze_wallet([wallet_cache |-> wallet_cache, cache_timestamps |-> cache_timestamps,
                       db_wallet_stats |-> db_wallet_stats], w, FALSE, t, resp1, TRUE).result = NoneVal
    THEN Responses(w) ELSE {resp1}

StoreOutcomes == IF store_faulty THEN BOOLEAN ELSE {TRUE}

----------------------------------------------------------------------------
(* Observations *)

\* the cache entry of w is missing or older than the TTL at time t
CacheStale(w, t) ==
    \/ wallet_cache[w] = NoneVal
    \/ t - (IF cache_timestamps[w] = NoneVal THEN 0 ELSE Val(cache_timestamps[w])) >= cache_ttl

\* time of the latest /activity query made for w by a non-forced call
NoteFetch(log, w, t, fetched) ==
    IF fetched THEN [log EXCEPT ![w] = Some(t)] ELSE log

\* seconds between a non-forced call's /activity query and the previous such
\* query for the same wallet, None if this call made no query or none preceded
RefetchGap(log, w, t, fetched) ==
    IF fetched /\ log[w] # NoneVal THEN Some(t - Val(log[w])) ELSE NoneVal

\* the gap of the later of the two analyses of one generate_alert call that
\* queried /activity
LastGap(log, log1, w, t, fetches) ==
    IF RefetchGap(log1, w, t, fetches[2]) # NoneVal
    THEN RefetchGap(log1, w, t, fetches[2])
    ELSE RefetchGap(log, w, t, fetches[1])

NoLast == [op |-> "none", tx |-> "", usdc_value |-> 0, alert |-> NoneVal, wallet_stats |-> NoneVal,
           raised |-> FALSE, forced |-> FALSE, stale |-> FALSE, fetched |-> FALSE,
           refetch_gap |-> NoneVal, alerts_before |-> 0, sends_before |-> 0,
           send_result |-> NoneVal]

----------------------------------------------------------------------------
(* The scanner *)

WA == [wallet_cache |-> wallet_cache, cache_timestamps |-> cache_timestamps,
       db_wallet_stats |-> db_wallet_stats]

LG == [db_alerts |-> db_alerts, telegram_log |-> telegram_log]

\* the loops asyncio.gather runs: poll_recent_trades,
\* monitor_news_correlation, monitor_social_activity
Loops == {"trade", "news", "social"}

\* the market matcher before its first call
NoRelIn == [signal_text |-> <<>>, market_text |-> <<>>, keywords |-> <<>>, username |-> <<>>]

NoSignal == [title |-> <<>>, content |-> <<>>, keywords |-> <<>>, username |-> <<>>]

NoRelOut == [op |-> "none", score |-> NoneVal, signal |-> NoSignal,
             min_confidence |-> 0, matches |-> <<>>, refresh |-> "none",
             keyword_score |-> 0, overlap_score |-> 0]

\* the correlators before their first iteration
CorrelatorIdle ==
    /\ processed_news = {}
    /\ processed_posts = {}
    /\ reaction_log = <<>>
    /\ news_matcher = [markets_cache |-> <<>>, last_cache_update |-> 0]
    /\ correlated = [once |-> {}, again |-> {}]
    /\ loops = [l \in Loops |-> "ready"]

MatcherIdle ==
    /\ CorrelatorIdle
    /\ upstream_markets = <<>>
    /\ markets_cache = <<>>
    /\ last_cache_update = 0
    /\ rel_in = NoRelIn
    /\ rel_out = NoRelOut

Init ==
    /\ now = StartTime
    /\ config \in [MIN_SEVERITY : Main.Floors, telegram : BOOLEAN]
    /\ \E f \in Main.Upstream :
          /\ upstream_activity = [w \in Wallets |-> f[w].activity]
          /\ upstream_positions = [w \in Wallets |-> f[w].positions]
    /\ wallet_cache = [w \in Wallets |-> NoneVal]
    /\ cache_timestamps = [w \in Wallets |-> NoneVal]
    /\ db_wallet_stats = [w \in Wallets |-> NoneVal]
    /\ db_trades = <<>>
    /\ db_alerts = <<>>
    /\ processed_trades = {}
    /\ telegram_log = <<>>
    /\ last = NoLast
    /\ call_log = [w \in Wallets |-> NoneVal]
    /\ alerts_generated = [x \in TxIds |-> 0]
    /\ fed_again = {}
    /\ store_faulty = FALSE
    /\ MatcherIdle

\* time passes
Tick ==
    /\ \E d \in TimeSteps :
          /\ now + d <= StartTime + MaxElapsed
          /\ now' = now + d
    /\ UNCHANGED <<config, upstream_activity, upstream_positions, wallet_cache,
                   cache_timestamps, db_wallet_stats, db_trades, db_alerts,
                   processed_trades, telegram_log, last, call_log,
                   alerts_generated, fed_again, store_faulty, matcher_vars>>

\* the early return with only the missing-hash test
missing_hash_only(tx, processed) == tx = ""

\* the early return with only the seen-set test
seen_hash_only(tx, processed) == tx \in processed

\* Line 727: "if not tx_hash or tx_hash in self.processed_trades"
already_processed(tx, processed) == tx = "" \/ tx \in processed

\* process_trade(trade_data), lines 726-728: a record without transactionHash
\* (tx = "") or with one already processed is dropped
ProcessTradeSkip(tx) ==
    /\ already_processed(tx, processed_trades)
    /\ fed_again' = IF tx = "" THEN fed_again ELSE fed_again \cup {tx}
    /\ last' = [NoLast EXCEPT !.op = "process_trade_skip", !.tx = tx,
                              !.alerts_before = Len(db_alerts),
                              !.sends_before = Len(telegram_log)]
    /\ UNCHANGED <<wallet_cache, cache_timestamps, db_wallet_stats, db_trades,
                   db_alerts, processed_trades, telegram_log, call_log,
                   alerts_generated>>

\* process_trade(trade_data), lines 730-756: the rest of the handler, up to its
\* return or to the exception that leaves it
ProcessTradeNew(tx, wallet, value) ==
    /\ ~already_processed(tx, processed_trades)
    /\ fed_again' = IF tx \in processed_trades THEN fed_again \cup {tx} ELSE fed_again
    /\ \E resp1 \in Responses(wallet), dbOk \in StoreOutcomes, tgOk \in SendOutcomes :
        \E resp2 \in Responses2(wallet, now, resp1) :
         \E trade \in {[transaction_hash |-> tx, wallet_address |-> wallet,
                         usdc_value |-> value, timestamp |-> StartTime,
                         market_id |-> "c1"]} :
          \E g \in {generate_alert(WA, trade, now, resp1, resp2, dbOk)} :
           \E s \in {IF g.alert = NoneVal THEN [lg |-> LG, raised |-> FALSE, result |-> NoneVal]
                      ELSE send_alert(LG, Val(g.alert), config, dbOk, tgOk)} :
            \E log1 \in {NoteFetch(call_log, wallet, now, g.fetches[1])} :
             /\ processed_trades' = processed_trades \cup {tx}
             /\ db_trades' = save_trade(db_trades, trade, dbOk)
             /\ wallet_cache' = g.wa.wallet_cache
             /\ cache_timestamps' = g.wa.cache_timestamps
             /\ db_wallet_stats' = g.wa.db_wallet_stats
             /\ db_alerts' = s.lg.db_alerts
             /\ telegram_log' = s.lg.telegram_log
             /\ call_log' = NoteFetch(log1, wallet, now, g.fetches[2])
             /\ alerts_generated' =
                   IF g.alert = NoneVal THEN alerts_generated
                   ELSE [alerts_generated EXCEPT ![tx] = @ + 1]
             /\ last' = [op |-> "process_trade", tx |-> tx, usdc_value |-> value,
                         alert |-> g.alert,
                         wallet_stats |-> g.wallet_stats, raised |-> s.raised,
                         forced |-> FALSE, stale |-> CacheStale(wallet, now),
                         fetched |-> g.fetches[1],
                         refetch_gap |-> LastGap(call_log, log1, wallet, now, g.fetches),
                         alerts_before |-> Len(db_alerts),
                         sends_before |-> Len(telegram_log),
                         send_result |-> s.result]

ProcessTradeStep ==
    /\ \E tx \in TxIds \cup {""} :
          \/ ProcessTradeSkip(tx)
          \/ \E value \in TradeValues(tx) : ProcessTradeNew(tx, TradeWallet(tx), value)
    /\ UNCHANGED <<now, config, upstream_activity, upstream_positions, store_faulty, matcher_vars>>


\* the scanner on a database whose statements can fail (save_trade,
\* save_wallet_stats and save_alert catch the exception)
InitIngestFaults ==
    /\ now = StartTime
    /\ config \in [MIN_SEVERITY : Main.Floors, telegram : BOOLEAN]
    /\ \E f \in Main.Upstream :
          /\ upstream_activity = [w \in Wallets |-> f[w].activity]
          /\ upstream_positions = [w \in Wallets |-> f[w].positions]
    /\ wallet_cache = [w \in Wallets |-> NoneVal]
    /\ cache_timestamps = [w \in Wallets |-> NoneVal]
    /\ db_wallet_stats = [w \in Wallets |-> NoneVal]
    /\ db_trades = <<>>
    /\ db_alerts = <<>>
    /\ processed_trades = {}
    /\ telegram_log = <<>>
    /\ last = NoLast
    /\ call_log = [w \in Wallets |-> NoneVal]
    /\ alerts_generated = [x \in TxIds |-> 0]
    /\ fed_again = {}
    /\ store_faulty = TRUE
    /\ MatcherIdle

NextIngestFaults == ProcessTradeStep

SpecIngestFaults == InitIngestFaults /\ [][NextIngestFaults]_vars

\* a direct analyze_wallet call (analyze_historical_performance forces the
\* refresh, the other callers do not)
AnalyzeWalletCall ==
    /\ \E wallet \in Wallets, force_refresh \in BOOLEAN, dbOk \in StoreOutcomes :
        \E resp \in Responses(wallet) :
          \E r \in {analyze_wallet(WA, wallet, force_refresh, now, resp, dbOk)} :
             /\ wallet_cache' = r.wa.wallet_cache
             /\ cache_timestamps' = r.wa.cache_timestamps
             /\ db_wallet_stats' = r.wa.db_wallet_stats
             /\ call_log' = IF force_refresh THEN call_log
                            ELSE NoteFetch(call_log, wallet, now, r.fetched)
             /\ last' = [NoLast EXCEPT !.op = "analyze_wallet",
                                       !.wallet_stats = r.result,
                                       !.forced = force_refresh,
                                       !.stale = CacheStale(wallet, now),
                                       !.fetched = r.fetched,
                                       !.refetch_gap =
                                           IF force_refresh THEN NoneVal
                                           ELSE RefetchGap(call_log, wallet, now, r.fetched),
                                       !.alerts_before = Len(db_alerts),
                                       !.sends_before = Len(telegram_log)]
    /\ UNCHANGED <<now, config, upstream_activity, upstream_positions, db_trades,
                   db_alerts, processed_trades, telegram_log, alerts_generated,
                   fed_again, store_faulty, matcher_vars>>

\* a direct generate_alert call (the classifier on its own, nothing is sent)
GenerateAlert(wallet, value, resp1, resp2) ==
    \E dbOk \in StoreOutcomes :
      \E trade \in {[transaction_hash |-> "", wallet_address |-> wallet,
                      usdc_value |-> value, timestamp |-> StartTime,
                         market_id |-> "c1"]} :
       \E g \in {generate_alert(WA, trade, now, resp1, resp2, dbOk)} :
        \E log1 \in {NoteFetch(call_log, wallet, now, g.fetches[1])} :
           /\ wallet_cache' = g.wa.wallet_cache
           /\ cache_timestamps' = g.wa.cache_timestamps
           /\ db_wallet_stats' = g.wa.db_wallet_stats
           /\ call_log' = NoteFetch(log1, wallet, now, g.fetches[2])
           /\ last' = [NoLast EXCEPT !.op = "generate_alert",
                                     !.usdc_value = value,
                                     !.alert = g.alert,
                                     !.wallet_stats = g.wallet_stats,
                                     !.stale = CacheStale(wallet, now),
                                     !.fetched = g.fetches[1],
                                     !.refetch_gap =
                                         LastGap(call_log, log1, wallet, now, g.fetches)]

GenerateAlertStep ==
    /\ \E wallet \in Wallets :
          \E resp1 \in Responses(wallet) :
             \E resp2 \in Responses2(wallet, now, resp1) :
                GenerateAlert(wallet, LARGE_BET, resp1, resp2)
    /\ UNCHANGED <<now, config, upstream_activity, upstream_positions, db_trades,
                   db_alerts, processed_trades, telegram_log, alerts_generated,
                   fed_again, store_faulty, matcher_vars>>

\* The ingestion path: trades are fed to process_trade, new ones and repeated
\* ones, within one cache window
Next == ProcessTradeStep

Spec == Init /\ [][Next]_vars

\* The wallet profile cache: direct analyses and classifications while time passes
InitCache ==
    /\ Init
    /\ config = [MIN_SEVERITY |-> "MEDIUM", telegram |-> TRUE]

NextCache == Tick \/ AnalyzeWalletCall \/ GenerateAlertStep

SpecCache == InitCache /\ [][NextCache]_vars

\* The same while the writes of the database can raise (save_wallet_stats logs
\* the exception and returns)
InitStoreFaults ==
    /\ now = StartTime
    /\ config = [MIN_SEVERITY |-> "MEDIUM", telegram |-> TRUE]
    /\ \E f \in Main.Upstream :
          /\ upstream_activity = [w \in Wallets |-> f[w].activity]
          /\ upstream_positions = [w \in Wallets |-> f[w].positions]
    /\ wallet_cache = [w \in Wallets |-> NoneVal]
    /\ cache_timestamps = [w \in Wallets |-> NoneVal]
    /\ db_wallet_stats = [w \in Wallets |-> NoneVal]
    /\ db_trades = <<>>
    /\ db_alerts = <<>>
    /\ processed_trades = {}
    /\ telegram_log = <<>>
    /\ last = NoLast
    /\ call_log = [w \in Wallets |-> NoneVal]
    /\ alerts_generated = [x \in TxIds |-> 0]
    /\ fed_again = {}
    /\ store_faulty = TRUE
    /\ MatcherIdle

NextStoreFaults == Tick \/ AnalyzeWalletCall \/ GenerateAlertStep

SpecStoreFaults == InitStoreFaults /\ [][NextStoreFaults]_vars

----------------------------------------------------------------------------
(* The classifier on every kind of wallet profile *)

\* first trade times: unknown (0), now, and 10h .. 200h before now
\* the inputs of the classifier: the time of the first trade, the number of
\* equal trades, the positions and the value of the trade
Classify ==
    [FirstTrades |-> {0} \cup {StartTime - h * Hour : h \in {0, 10, 24, 100, 168, 200}},
     Counts |-> {1, 3, MaxManyTrades - 1, MaxManyTrades},
     Positions |-> {<<>>, <<-1>>, <<1, -1>>, <<1, 1, -1>>, <<1>>},
     Values |-> {0, LARGE_BET - 1, LARGE_BET, VERY_LARGE_BET - 1, VERY_LARGE_BET,
                 HUGE_BET - 1, HUGE_BET, 75000}]

\* what follows the run of equal trades: nothing, a trade on a second market,
\* a trade without conditionId, a record that is not a trade
ClassifyExtras(ts) ==
    {<<>>, <<TradeRec("c2", ts)>>, <<TradeRec("", ts)>>,
     <<[type |-> "REDEEM", conditionId |-> "c2", timestamp |-> ts]>>}

ClassifyProfiles ==
    {NoProfile} \cup
    {[activity |-> Rep(TradeRec("c1", ts), n) \o x, positions |-> p] :
        ts \in Classify.FirstTrades, n \in Classify.Counts,
        x \in ClassifyExtras(StartTime - 300 * Hour), p \in Classify.Positions}

InitClassify ==
    /\ now = StartTime
    /\ config = [MIN_SEVERITY |-> "MEDIUM", telegram |-> TRUE]
    /\ \E prof \in ClassifyProfiles :
          /\ upstream_activity = [w \in Wallets |-> IF w = "w1" THEN prof.activity ELSE <<>>]
          /\ upstream_positions = [w \in Wallets |-> IF w = "w1" THEN prof.positions ELSE <<>>]
    /\ wallet_cache = [w \in Wallets |-> NoneVal]
    /\ cache_timestamps = [w \in Wallets |-> NoneVal]
    /\ db_wallet_stats = [w \in Wallets |-> NoneVal]
    /\ db_trades = <<>>
    /\ db_alerts = <<>>
    /\ processed_trades = {}
    /\ telegram_log = <<>>
    /\ last = NoLast
    /\ call_log = [w \in Wallets |-> NoneVal]
    /\ alerts_generated = [x \in TxIds |-> 0]
    /\ fed_again = {}
    /\ store_faulty = FALSE
    /\ MatcherIdle

ClassifyStep ==
    /\ \E value \in Classify.Values :
          GenerateAlert("w1", value, FullResponse("w1"), FullResponse("w1"))
    /\ UNCHANGED <<now, config, upstream_activity, upstream_positions, db_trades,
                   db_alerts, processed_trades, telegram_log, alerts_generated,
                   fed_again, store_faulty, matcher_vars>>

NextClassify == ClassifyStep

SpecClassify == InitClassify /\ [][NextClassify]_vars

----------------------------------------------------------------------------
(* The new-wallet rule under a configured NEW_WALLET_HOURS *)

\* the configured thresholds, and the age of the wallet in hours
NewWallet ==
    [Hours |-> {48, 168, 336},
     Ages |-> {0, 10, 24, 47, 48, 100, 167, 168, 180, 335, 336, 400},
     Values |-> {LARGE_BET, VERY_LARGE_BET, HUGE_BET}]

InitNewWallet ==
    /\ now = StartTime
    /\ \E h \in NewWallet.Hours :
          config = [MIN_SEVERITY |-> "MEDIUM", telegram |-> TRUE,
                    NEW_WALLET_HOURS |-> h,
                    VERY_NEW_WALLET_HOURS |-> VERY_NEW_WALLET_HOURS]
    /\ upstream_activity = [w \in Wallets |-> <<>>]
    /\ upstream_positions = [w \in Wallets |-> <<>>]
    /\ wallet_cache = [w \in Wallets |-> NoneVal]
    /\ cache_timestamps = [w \in Wallets |-> NoneVal]
    /\ db_wallet_stats = [w \in Wallets |-> NoneVal]
    /\ db_trades = <<>>
    /\ db_alerts = <<>>
    /\ processed_trades = {}
    /\ telegram_log = <<>>
    /\ last = NoLast
    /\ call_log = [w \in Wallets |-> NoneVal]
    /\ alerts_generated = [x \in TxIds |-> 0]
    /\ fed_again = {}
    /\ store_faulty = FALSE
    /\ MatcherIdle

\* generate_alert lines 592-623 for a wallet whose analysis gave wallet_stats
\* (None, or a profile with its first_trade_time): is_new_wallet with its
\* default threshold, the base tier, the new-wallet rule
NewWalletRule(wallet_stats, value) ==
    \E a \in {is_new_wallet_of(now, [wa |-> WA, fetched |-> FALSE,
                                     result |-> wallet_stats])} :
      \E r \in {IF wallet_stats = NoneVal
                THEN [severity |-> base_tier(value).severity, flags |-> <<>>]
                ELSE rule_new_wallet_at(base_tier(value).severity, a.is_new, a.age,
                                        config.NEW_WALLET_HOURS,
                                        config.VERY_NEW_WALLET_HOURS)} :
         last' = [NoLast EXCEPT !.op = "rule_new_wallet", !.usdc_value = value,
                                !.wallet_stats = wallet_stats,
                                !.alert = Some([severity |-> r.severity,
                                                is_new |-> a.is_new,
                                                wallet_age_hours |-> a.age,
                                                reason |-> [flags |-> r.flags]])]

NewWalletStep ==
    /\ \E wallet_stats \in {NoneVal, Some([first_trade_time |-> 0])}
                             \cup {Some([first_trade_time |-> now - h * Hour]) :
                                      h \in NewWallet.Ages},
          value \in NewWallet.Values :
          NewWalletRule(wallet_stats, value)
    /\ UNCHANGED <<now, config, upstream_activity, upstream_positions, wallet_cache,
                   cache_timestamps, db_wallet_stats, db_trades, db_alerts,
                   processed_trades, telegram_log, call_log, alerts_generated,
                   fed_again, store_faulty, matcher_vars>>

NextNewWallet == NewWalletStep

SpecNewWallet == InitNewWallet /\ [][NextNewWallet]_vars

----------------------------------------------------------------------------
(* The market matcher *)

\* the scanner at rest, while the correlators run
ScannerIdle ==
    /\ now = StartTime
    /\ config = [MIN_SEVERITY |-> "MEDIUM", telegram |-> TRUE]
    /\ upstream_activity = [w \in Wallets |-> <<>>]
    /\ upstream_positions = [w \in Wallets |-> <<>>]
    /\ wallet_cache = [w \in Wallets |-> NoneVal]
    /\ cache_timestamps = [w \in Wallets |-> NoneVal]
    /\ db_wallet_stats = [w \in Wallets |-> NoneVal]
    /\ db_trades = <<>>
    /\ db_alerts = <<>>
    /\ processed_trades = {}
    /\ telegram_log = <<>>
    /\ last = NoLast
    /\ call_log = [w \in Wallets |-> NoneVal]
    /\ alerts_generated = [x \in TxIds |-> 0]
    /\ fed_again = {}
    /\ store_faulty = FALSE

scanner_vars == <<now, config, upstream_activity, upstream_positions, wallet_cache,
                  cache_timestamps, db_wallet_stats, db_trades, db_alerts,
                  processed_trades, telegram_log, last, call_log, alerts_generated,
                  fed_again, store_faulty>>

RECURSIVE Flatten(_)
Flatten(seqs) == IF seqs = <<>> THEN <<>> ELSE Head(seqs) \o Flatten(Tail(seqs))

\* n distinct words of four letters
ManyWords(n) == Flatten([i \in 1..n |-> <<" ", "w", "o", "r", LowerChars[i]>>])

\* a text with one capitalised entity, its lower-case form and n longer words
LongText(n) == Text.FedFedText \o ManyWords(n)

\* the arguments of the direct relevance calls
Rel ==
    [Texts |-> {<<>>, Text.BitcoinEtfText, Text.SecQuestionText, Text.BitcoinEtfLowerText,
                lower(Text.SecQuestionText), LongText(MaxWords - 1), LongText(MaxWords)},
     Keywords |-> {<<>>, <<Text.BitcoinWord, Text.EtfWord>>, <<Text.FedWord>>,
                   <<Text.FedLowerWord, Text.OtherWord>>,
                   <<Text.BitcoinLowerWord, Text.EtfLowerWord, Text.SecLowerWord>>},
     Usernames |-> {Text.TrumpName, Text.TrumpLowerName, Text.MuskName, Text.UnknownName}]

InitRelevance ==
    /\ ScannerIdle
    /\ CorrelatorIdle
    /\ upstream_markets = <<>>
    /\ markets_cache = <<>>
    /\ last_cache_update = 0
    /\ rel_in \in [signal_text : Rel.Texts, market_text : Rel.Texts,
                   keywords : Rel.Keywords, username : Rel.Usernames]
    /\ rel_out = NoRelOut

\* a call of MarketMatcher._calculate_relevance
NewsRelevanceStep ==
    /\ rel_out' = [NoRelOut EXCEPT
                     !.op = "news",
                     !.score = Some(calculate_relevance(rel_in.signal_text,
                                        rel_in.market_text, rel_in.keywords)),
                     !.keyword_score = keyword_score("news", rel_in.market_text,
                                                     rel_in.keywords),
                     !.overlap_score = overlap_score(rel_in.signal_text,
                                                     rel_in.market_text)]
    /\ UNCHANGED <<scanner_vars, correlator_vars, upstream_markets, markets_cache,
                   last_cache_update, rel_in>>

\* a call of SocialMediaCorrelator._calculate_relevance
SocialRelevanceStep ==
    /\ rel_out' = [NoRelOut EXCEPT
                     !.op = "social",
                     !.score = Some(social_calculate_relevance(rel_in.signal_text,
                                        rel_in.market_text, rel_in.keywords,
                                        rel_in.username)),
                     !.keyword_score = keyword_score("social", rel_in.market_text,
                                                     rel_in.keywords),
                     !.overlap_score = overlap_score(rel_in.signal_text,
                                                     rel_in.market_text)]
    /\ UNCHANGED <<scanner_vars, correlator_vars, upstream_markets, markets_cache,
                   last_cache_update, rel_in>>

NextRelevance == NewsRelevanceStep \/ SocialRelevanceStep

SpecRelevance == InitRelevance /\ [][NextRelevance]_vars

\* PolymarketAPI.get_active_markets: the answer, or [] when the request fails
get_active_markets(markets, apiOk) == IF apiOk THEN markets ELSE <<>>

\* {m.get("slug"): m for m in markets if m.get("slug")}; slug 0 is a missing slug
RECURSIVE dict_by_slug(_, _)
dict_by_slug(markets, acc) ==
    IF markets = <<>> THEN acc
    ELSE LET m == Head(markets)
             at == {i \in DOMAIN acc : acc[i].slug = m.slug}
         IN dict_by_slug(Tail(markets),
                IF m.slug = 0 THEN acc
                ELSE IF at # {} THEN [i \in DOMAIN acc |-> IF i \in at THEN m ELSE acc[i]]
                ELSE Append(acc, m))

\* MarketMatcher._update_markets_cache
update_markets_cache(markets, apiOk) == dict_by_slug(get_active_markets(markets, apiOk), <<>>)

\* what a call did about the cache: no refresh, a refresh from an answer of
\* the API, or a refresh while the request to the API failed
refresh_outcome(refresh, apiOk) ==
    IF ~refresh THEN "none" ELSE IF apiOk THEN "fetched" ELSE "failed"

\* list.sort(key=confidence) without reverse=True: ascending
RECURSIVE sort_matches_ascending(_)
sort_matches_ascending(matches) ==
    IF matches = <<>> THEN <<>>
    ELSE LET n == Len(matches)
             x == matches[n]
             sorted == sort_matches_ascending(SubSeq(matches, 1, n - 1))
             before == SelectSeq(sorted, LAMBDA y : y.confidence <= x.confidence)
             after == SelectSeq(sorted, LAMBDA y : y.confidence > x.confidence)
         IN before \o <<x>> \o after

\* matches.sort(key=lambda x: x["confidence"], reverse=True): stable, descending
RECURSIVE sort_matches(_)
sort_matches(matches) ==
    IF matches = <<>> THEN <<>>
    ELSE LET n == Len(matches)
             x == matches[n]
             sorted == sort_matches(SubSeq(matches, 1, n - 1))
             before == SelectSeq(sorted, LAMBDA y : y.confidence >= x.confidence)
             after == SelectSeq(sorted, LAMBDA y : y.confidence < x.confidence)
         IN before \o <<x>> \o after

TopN == 5

\* matches[:5]
top_matches(matches) == SubSeq(matches, 1, Min2(Len(matches), TopN))

\* f"{market.get('question', '')} {market.get('description', '')}".lower()
market_text_of(market) == lower(joined(market.question, market.description))

\* the confidence the news matcher gives a market for a news item
news_confidence(news_item, market) ==
    calculate_relevance(lower(joined(news_item.title, news_item.content)),
                        market_text_of(market), news_item.keywords)

\* the confidence the social matcher gives a market for a post
social_confidence(post, market) ==
    social_calculate_relevance(lower(post.content), market_text_of(market),
                               post.keywords, post.username)

\* the loop over the cache, the sort and the cut
scored_matches(scored, min_confidence) ==
    LET matches == SelectSeq(scored, LAMBDA x : x.confidence >= min_confidence)
    IN top_matches(sort_matches(matches))

SocialThreshold == 3600   \* 0.6

\* MarketMatcher.find_matching_markets on the matcher state
\* m = [markets_cache, last_cache_update] at time t
find_matching_markets(m, news_item, min_confidence, t, markets, apiOk) ==
    LET refresh == t - m.last_cache_update > markets_cache_ttl
        cache == IF refresh THEN update_markets_cache(markets, apiOk)
                 ELSE m.markets_cache
        scored == [i \in DOMAIN cache |->
                      [slug |-> cache[i].slug, market |-> cache[i],
                       confidence |-> news_confidence(news_item, cache[i])]]
    IN [m |-> [markets_cache |-> cache,
               last_cache_update |-> IF refresh THEN t ELSE m.last_cache_update],
        matches |-> scored_matches(scored, min_confidence),
        refresh |-> refresh_outcome(refresh, apiOk)]

\* SocialMediaCorrelator._find_matching_markets, on the same matcher state
social_find_matching_markets(m, post, t, markets, apiOk) ==
    LET refresh == t - m.last_cache_update > social_cache_ttl
        cache == IF refresh THEN update_markets_cache(markets, apiOk)
                 ELSE m.markets_cache
        scored == [i \in DOMAIN cache |->
                      [slug |-> cache[i].slug, market |-> cache[i],
                       confidence |-> social_confidence(post, cache[i])]]
    IN [m |-> [markets_cache |-> cache,
               last_cache_update |-> IF refresh THEN t ELSE m.last_cache_update],
        matches |-> scored_matches(scored, SocialThreshold),
        refresh |-> refresh_outcome(refresh, apiOk)]

\* the state of the market matcher
MM == [markets_cache |-> markets_cache, last_cache_update |-> last_cache_update]

\* a call of MarketMatcher.find_matching_markets
FindMatchingMarkets(news_item, min_confidence, apiOk) ==
    \E r \in {find_matching_markets(MM, news_item, min_confidence, now,
                                     upstream_markets, apiOk)} :
       /\ markets_cache' = r.m.markets_cache
       /\ last_cache_update' = r.m.last_cache_update
       /\ rel_out' = [NoRelOut EXCEPT
                        !.op = "news_match", !.signal = news_item,
                        !.min_confidence = min_confidence,
                        !.matches = r.matches, !.refresh = r.refresh]
       /\ UNCHANGED <<scanner_vars, correlator_vars, upstream_markets, rel_in>>

\* a call of SocialMediaCorrelator._find_matching_markets
SocialFindMatchingMarkets(post, apiOk) ==
    \E r \in {social_find_matching_markets(MM, post, now, upstream_markets, apiOk)} :
       /\ markets_cache' = r.m.markets_cache
       /\ last_cache_update' = r.m.last_cache_update
       /\ rel_out' = [NoRelOut EXCEPT
                        !.op = "social_match", !.signal = post,
                        !.min_confidence = SocialThreshold,
                        !.matches = r.matches, !.refresh = r.refresh]
       /\ UNCHANGED <<scanner_vars, correlator_vars, upstream_markets, rel_in>>

\* the inputs of the matcher: the questions of the markets upstream (the last
\* one comes without a slug), a news item, a post, and the thresholds a
\* caller passes (0.23, 0.45 and the default 0.6)
Match ==
    [Questions |-> <<Text.BitcoinEtfPriceText, Text.BitcoinVoteText,
                     Text.BitcoinEtfPriceText>>,
     News |-> {[title |-> Text.BitcoinEtfText, content |-> Text.PriceWord,
                keywords |-> <<Text.BitcoinWord, Text.EtfWord>>, username |-> <<>>]},
     Posts |-> {[title |-> <<>>, content |-> Text.BitcoinEtfPriceText,
                 keywords |-> <<Text.BitcoinLowerWord, Text.EtfLowerWord>>,
                 username |-> Text.TrumpName]},
     Thresholds |-> {1380, 2700, 3600}]

MarketKinds == 1..Len(Match.Questions)

\* the answer of the API for a choice of market kinds
MarketList(kinds) ==
    [i \in DOMAIN kinds |->
        [slug |-> IF kinds[i] = Len(Match.Questions) THEN 0 ELSE i,
         question |-> Match.Questions[kinds[i]], description |-> <<>>]]

\* answers of up to MaxMarkets markets; only the first may lack its slug
UpstreamMarketLists ==
    {MarketList(kinds) :
        kinds \in UNION {{f \in [1..n -> MarketKinds] :
                             \A i \in 2..n : f[i] # Len(Match.Questions)} :
                         n \in 0..MaxMarkets}}

InitMatch ==
    /\ ScannerIdle
    /\ CorrelatorIdle
    /\ upstream_markets \in UpstreamMarketLists
    /\ markets_cache = <<>>
    /\ last_cache_update = 0
    /\ rel_in = NoRelIn
    /\ rel_out = NoRelOut

\* the answers of the markets API that make a difference to the call
ApiOutcomes == IF now - last_cache_update > markets_cache_ttl THEN BOOLEAN ELSE {TRUE}

FindMatchingMarketsStep ==
    \E news_item \in Match.News, min_confidence \in Match.Thresholds, apiOk \in ApiOutcomes :
        FindMatchingMarkets(news_item, min_confidence, apiOk)

SocialFindMatchingMarketsStep ==
    \E post \in Match.Posts, apiOk \in ApiOutcomes : SocialFindMatchingMarkets(post, apiOk)

NextMatch == FindMatchingMarketsStep \/ SocialFindMatchingMarketsStep

SpecMatch == InitMatch /\ [][NextMatch]_vars

\* the cache outlives its time to live between two calls of the matcher
RefreshTick ==
    /\ now + markets_cache_ttl + 1 <= StartTime + MaxRefreshes * (markets_cache_ttl + 1)
    /\ now' = now + markets_cache_ttl + 1
    /\ UNCHANGED <<config, upstream_activity, upstream_positions, wallet_cache,
                   cache_timestamps, db_wallet_stats, db_trades, db_alerts,
                   processed_trades, telegram_log, last, call_log,
                   alerts_generated, fed_again, store_faulty, matcher_vars>>

NextRefresh == NextMatch \/ RefreshTick

SpecRefresh == InitMatch /\ [][NextRefresh]_vars

----------------------------------------------------------------------------
(* The correlators: a signal, its matching markets, the market's reaction *)

RecentLimit == 50          \* LIMIT 50
NewsWindow == 3600         \* hours=1
SocialWindow == 1800       \* hours=0.5
NewsReactionTrades == 5
SocialReactionTrades == 3
MarketMovingTrades == 5    \* _send_social_alert: "MARKET MOVING"
NewsHighTrades == 10       \* _send_news_alert: "HIGH ACTIVITY"
AllowlistConfidence == 4800   \* 0.8
NewsMinConfidence == 4200     \* min_confidence=0.7
TopWalletTrades == 10      \* total_trades > 10
TopLimit == 20             \* LIMIT 20
processed_limit == 1000

\* WalletActivityAnalyzer.get_recent_activity: the rows of the market newer
\* than the cutoff, newest first, at most 50 of them
get_recent_activity(trades, market_id, window, t) ==
    LET hit(i) == trades[i].market_id = market_id /\ trades[i].timestamp > t - window
        rank(i) == Cardinality({j \in DOMAIN trades :
                       /\ hit(j)
                       /\ \/ trades[j].timestamp > trades[i].timestamp
                          \/ trades[j].timestamp = trades[i].timestamp /\ j < i})
        kept == {i \in DOMAIN trades : hit(i) /\ rank(i) < RecentLimit}
    IN [k \in 1..Cardinality(kept) |->
           LET row == trades[CHOOSE i \in kept : rank(i) = k - 1]
           IN [wallet |-> row.wallet_address, usdc_value |-> row.usdc_value,
               timestamp |-> row.timestamp]]

\* WHERE win_rate > 0.65 AND total_trades > 10 (a NULL win rate fails the test)
top_wallet_rows(table) ==
    {w \in DOMAIN table :
        /\ table[w] # NoneVal
        /\ Val(table[w]).win_rate # NoneVal
        /\ Val(Val(table[w]).win_rate).p * 100 > HIGH_WIN_RATE_PCT * Val(Val(table[w]).win_rate).n
        /\ Val(table[w]).total_trades > TopWalletTrades}

\* the row of v comes before the row of w under ORDER BY win_rate DESC
higher_win_rate(table, v, w) ==
    Val(Val(table[v]).win_rate).p * Val(Val(table[w]).win_rate).n
        > Val(Val(table[w]).win_rate).p * Val(Val(table[v]).win_rate).n

\* SELECT wallet_address FROM wallet_stats WHERE ... ORDER BY win_rate DESC
\* LIMIT 20: the rows with fewer than 20 rows of a higher win rate before them
top_wallets(table) ==
    {w \in top_wallet_rows(table) :
        Cardinality({v \in top_wallet_rows(table) : higher_win_rate(table, v, w)}) < TopLimit}

\* the accounts that alert without any trade
HighPriorityAccounts == {Text.TrumpLowerName, Text.BidenLowerName}

\* SocialMediaCorrelator._analyze_market_reaction: whether _send_social_alert
\* is called, given the recent trades of the market and those of them made by
\* top wallets
social_reaction_of(post, match, recent_trades, top_wallet_trades) ==
    IF recent_trades = <<>>
    THEN [alert |-> /\ match.confidence > AllowlistConfidence
                    /\ lower(post.username) \in HighPriorityAccounts,
          all_trades |-> <<>>, smart_trades |-> <<>>]
    ELSE [alert |-> top_wallet_trades # <<>> \/ Len(recent_trades) >= SocialReactionTrades,
          all_trades |-> recent_trades, smart_trades |-> top_wallet_trades]

\* NewsMarketCorrelator._analyze_market_reaction: whether _send_news_alert is called
news_reaction_of(recent_trades, top_wallet_trades) ==
    IF recent_trades = <<>>
    THEN [alert |-> FALSE, all_trades |-> <<>>, smart_trades |-> <<>>]
    ELSE [alert |-> top_wallet_trades # <<>> \/ Len(recent_trades) >= NewsReactionTrades,
          all_trades |-> recent_trades, smart_trades |-> top_wallet_trades]

\* _analyze_market_reaction of the social correlator (kind "social") or of
\* the news correlator (kind "news") on the recent trades of the market
reaction_of(kind, signal, match, recent_trades, top) ==
    IF kind = "social"
    THEN social_reaction_of(signal, match, recent_trades,
                            SelectSeq(recent_trades, LAMBDA r : r.wallet \in top))
    ELSE news_reaction_of(recent_trades,
                          SelectSeq(recent_trades, LAMBDA r : r.wallet \in top))

\* social_alert_severity with HIGH from the number of trades that raises the alert
social_alert_severity_at_minimum(all_trades, smart_trades) ==
    IF smart_trades # <<>> THEN "CRITICAL"
    ELSE IF Len(all_trades) >= SocialReactionTrades THEN "HIGH"
    ELSE "MEDIUM"

\* the severity _send_social_alert prints
social_alert_severity(all_trades, smart_trades) ==
    IF smart_trades # <<>> THEN "CRITICAL"
    ELSE IF Len(all_trades) >= MarketMovingTrades THEN "HIGH"
    ELSE "MEDIUM"

\* the severity _send_news_alert prints
news_alert_severity(all_trades, smart_trades) ==
    IF smart_trades # <<>> THEN "CRITICAL"
    ELSE IF Len(all_trades) >= NewsHighTrades THEN "HIGH"
    ELSE "MEDIUM"

\* _send_social_alert and _send_news_alert: the message goes straight to
\* TelegramBot.send_message when a bot is configured; no row of the alerts
\* table belongs to it (alert_id 0)
send_signal_alert(log, telegram, tgOk) ==
    IF telegram THEN Append(log, [alert_id |-> 0, ok |-> tgOk]) ELSE log

\* the state a correlator works on when an iteration starts
CS(processed, m) ==
    [processed |-> processed, m |-> m, telegram_log |-> telegram_log,
     reaction_log |-> <<>>, correlated |-> correlated]

\* one match of a signal: the reaction analysis r and, if it decides so, the
\* alert; the call is noted in reaction_log
signal_react(kind, cs, signal, match, r, env) ==
    [cs EXCEPT
       !.telegram_log = IF r.alert THEN send_signal_alert(@, env.telegram, env.tgOk) ELSE @,
       !.reaction_log =
           Append(@, [kind |-> kind,
                      id |-> IF kind = "social" THEN signal.post_id ELSE signal.url,
                      username |-> signal.username, slug |-> match.slug,
                      confidence |-> match.confidence,
                      trades |-> Len(r.all_trades), smart |-> Len(r.smart_trades),
                      wallets |-> {r.all_trades[i].wallet : i \in DOMAIN r.all_trades},
                      alerted |-> r.alert,
                      severity |-> IF ~r.alert THEN "NONE"
                                   ELSE IF kind = "social"
                                   THEN social_alert_severity(r.all_trades, r.smart_trades)
                                   ELSE news_alert_severity(r.all_trades, r.smart_trades)])]

\* for match in matches: await self._analyze_market_reaction(signal, match)
RECURSIVE signal_reactions(_, _, _, _, _)
signal_reactions(kind, cs, signal, matches, env) ==
    IF matches = <<>> THEN cs
    ELSE CHOOSE after \in
            {signal_reactions(kind, signal_react(kind, cs, signal, Head(matches), r, env),
                              signal, Tail(matches), env) :
                r \in {reaction_of(kind, signal, Head(matches),
                           get_recent_activity(env.trades, Head(matches).market.conditionId,
                               IF kind = "social" THEN SocialWindow ELSE NewsWindow, env.t),
                           top_wallets(env.table))}} : TRUE

\* the matches found for a new signal, and their reactions
signal_matched(kind, cs, signal, found, env) ==
    CHOOSE after \in
        {signal_reactions(kind, [cs EXCEPT !.m = f.m], signal, f.matches, env) :
            f \in {found}} : TRUE

\* the id is handed to market matching: for the first time, or again
note_correlated(c, id) ==
    IF id \in c.once THEN [c EXCEPT !.again = @ \cup {id}]
    ELSE [c EXCEPT !.once = @ \cup {id}]

\* for post in all_posts (monitor_social_activity), for news in news_items
\* (monitor_news_correlation): the body of the loop over the signals fetched
RECURSIVE process_signals(_, _, _, _)
process_signals(kind, cs, signals, env) ==
    IF signals = <<>> THEN cs
    ELSE CHOOSE after \in
            {process_signals(kind, next, Tail(signals), env) :
                next \in
                  {IF (IF kind = "social" THEN Head(signals).post_id ELSE Head(signals).url)
                         \in cs.processed
                   THEN cs
                   ELSE signal_matched(kind,
                           [cs EXCEPT !.processed = @ \cup
                               {IF kind = "social" THEN Head(signals).post_id
                                ELSE Head(signals).url},
                                   !.correlated =
                               note_correlated(@, IF kind = "social"
                                                  THEN Head(signals).post_id
                                                  ELSE Head(signals).url)],
                           Head(signals),
                           IF kind = "social"
                           THEN social_find_matching_markets(cs.m, Head(signals), env.t,
                                                             env.markets, env.apiOk)
                           ELSE find_matching_markets(cs.m, Head(signals), NewsMinConfidence,
                                                      env.t, env.markets, env.apiOk),
                           env)}} : TRUE

\* set(list(processed)[-1000:]) once more than 1000 are kept: any 1000 of
\* them, in the iteration order of the set
RECURSIVE cleanups(_)
cleanups(processed) ==
    IF Cardinality(processed) > processed_limit
    THEN UNION {cleanups(processed \ {dropped}) : dropped \in processed}
    ELSE {processed}

\* what an iteration reads besides the correlator's own state
Env(apiOk, tgOk) ==
    [t |-> now, markets |-> upstream_markets, trades |-> db_trades,
     table |-> db_wallet_stats, telegram |-> config.telegram,
     apiOk |-> apiOk, tgOk |-> tgOk]

\* one iteration of monitor_social_activity over the posts fetched; with
\* raised_at = k > 0 an exception leaves the iteration while post k is
\* handled, after it was added to processed_posts
MonitorSocialIteration(all_posts, apiOk, tgOk, raised_at) ==
    \E cs \in {process_signals("social", CS(processed_posts, MM),
                   IF raised_at = 0 THEN all_posts ELSE SubSeq(all_posts, 1, raised_at - 1),
                   Env(apiOk, tgOk))} :
       /\ processed_posts' \in
             IF raised_at = 0 THEN cleanups(cs.processed)
             ELSE {cs.processed \cup {all_posts[raised_at].post_id}}
       /\ markets_cache' = cs.m.markets_cache
       /\ last_cache_update' = cs.m.last_cache_update
       /\ telegram_log' = cs.telegram_log
       /\ reaction_log' = cs.reaction_log
       /\ UNCHANGED <<now, config, upstream_activity, upstream_positions, wallet_cache,
                      cache_timestamps, db_wallet_stats, db_trades, db_alerts,
                      processed_trades, last, call_log, alerts_generated, fed_again,
                      store_faulty, upstream_markets, rel_in, rel_out, processed_news,
                      news_matcher>>
       /\ correlated' = cs.correlated

\* one iteration of monitor_news_correlation over the news fetched
MonitorNewsIteration(news_items, apiOk, tgOk, raised_at) ==
    \E cs \in {process_signals("news", CS(processed_news, news_matcher),
                   IF raised_at = 0 THEN news_items ELSE SubSeq(news_items, 1, raised_at - 1),
                   Env(apiOk, tgOk))} :
       /\ processed_news' \in
             IF raised_at = 0 THEN cleanups(cs.processed)
             ELSE {cs.processed \cup {news_items[raised_at].url}}
       /\ news_matcher' = cs.m
       /\ correlated' = cs.correlated
       /\ telegram_log' = cs.telegram_log
       /\ reaction_log' = cs.reaction_log
       /\ UNCHANGED <<now, config, upstream_activity, upstream_positions, wallet_cache,
                      cache_timestamps, db_wallet_stats, db_trades, db_alerts,
                      processed_trades, last, call_log, alerts_generated, fed_again,
                      store_faulty, upstream_markets, markets_cache, last_cache_update,
                      rel_in, rel_out, processed_posts>>

\* one wallet more than the top-wallet query returns
ManyTopWallets == [i \in 1..(TopLimit + 1) |-> "t" \o ToString(i)]

\* n rows of the trades table made by wallet w on market c, age seconds ago
ReactionRows(n, w, c, age) ==
    [i \in 1..n |-> [transaction_hash |-> i, wallet_address |-> w, usdc_value |-> LARGE_BET,
                     timestamp |-> StartTime - age, market_id |-> c]]

\* the inputs of the correlators: two markets; posts of confidence 0.8, 1.0,
\* 0.95 and 0.76; news of confidence 0.7 and 0.4; trades older than both
\* windows, between the two windows and inside both; a table with one,
\* two or twenty-one top wallets
Reaction ==
    [Markets |-> <<[slug |-> 1, conditionId |-> "c1",
                    question |-> LongText(MaxWords - 1), description |-> <<>>],
                   [slug |-> 2, conditionId |-> "c2",
                    question |-> Text.BitcoinEtfPriceText, description |-> <<>>]>>,
     Posts |-> <<[post_id |-> "p1", username |-> Text.TrumpName, title |-> <<>>,
                 content |-> LongText(MaxWords - 1),
                 keywords |-> <<Text.FedLowerWord, Text.OtherWord>>],
                [post_id |-> "p2", username |-> Text.TrumpName, title |-> <<>>,
                 content |-> LongText(MaxWords - 1), keywords |-> <<Text.FedLowerWord>>],
                [post_id |-> "p3", username |-> Text.MuskName, title |-> <<>>,
                 content |-> LongText(MaxWords - 1), keywords |-> <<Text.FedLowerWord>>],
                [post_id |-> "p4", username |-> Text.BidenName, title |-> <<>>,
                 content |-> Text.BitcoinEtfPriceText,
                 keywords |-> <<Text.BitcoinLowerWord, Text.EtfLowerWord>>]>>,
     News |-> <<[url |-> "n1", title |-> Text.FedFedText, username |-> <<>>,
                content |-> ManyWords(MaxWords - 1), keywords |-> <<Text.FedWord>>],
               [url |-> "n2", title |-> Text.BitcoinEtfText, username |-> <<>>,
                content |-> Text.PriceWord, keywords |-> <<Text.BitcoinWord, Text.EtfWord>>]>>,
     Scenes |-> {[trades |-> <<>>, top |-> {"w1"}],
                 [trades |-> ReactionRows(1, "w2", "c1", 2 * Hour), top |-> {"w1"}],
                 [trades |-> ReactionRows(1, "w1", "c1", SocialWindow + 1), top |-> {"w1"}],
                 [trades |-> ReactionRows(SocialReactionTrades - 1, "w2", "c1", 60),
                  top |-> {"w1"}],
                 [trades |-> ReactionRows(SocialReactionTrades - 1, "w2", "c1", 60),
                  top |-> {"w1", "w2"}],
                 [trades |-> ReactionRows(SocialReactionTrades, "w2", "c1", 60),
                  top |-> {"w1"}],
                 [trades |-> ReactionRows(NewsReactionTrades, "w2", "c1", 60),
                  top |-> {"w1"}],
                 [trades |-> ReactionRows(NewsHighTrades, "w2", "c1", 60),
                  top |-> {"w1"}],
                 [trades |-> ReactionRows(1, ManyTopWallets[TopLimit + 1], "c1", 60),
                  top |-> Range(ManyTopWallets)]}]

\* the table wallet_stats with the rows of the given top wallets: a win rate
\* of 2/3 for the wallets of the scanner, of 99% down to 79% for the others
TopTable(top) ==
    [w \in Wallets \cup top |->
        IF w \in top
        THEN Some([first_trade_time |-> StartTime - 200 * Hour,
                   total_trades |-> TopWalletTrades + 1,
                   markets_traded |-> <<"c1">>,
                   win_rate |-> IF w \in Wallets THEN Some([p |-> 2, n |-> 3])
                                ELSE Some([p |-> 100 - (CHOOSE i \in DOMAIN ManyTopWallets :
                                                           ManyTopWallets[i] = w),
                                           n |-> 100])])
        ELSE NoneVal]

InitReaction ==
    /\ now = StartTime
    /\ config \in [MIN_SEVERITY : {"HIGH"}, telegram : BOOLEAN]
    /\ upstream_activity = [w \in Wallets |-> <<>>]
    /\ upstream_positions = [w \in Wallets |-> <<>>]
    /\ wallet_cache = [w \in Wallets |-> NoneVal]
    /\ cache_timestamps = [w \in Wallets |-> NoneVal]
    /\ \E scene \in Reaction.Scenes :
          /\ db_wallet_stats = TopTable(scene.top)
          /\ db_trades = scene.trades
    /\ db_alerts = <<>>
    /\ processed_trades = {}
    /\ telegram_log = <<>>
    /\ last = NoLast
    /\ call_log = [w \in Wallets |-> NoneVal]
    /\ alerts_generated = [x \in TxIds |-> 0]
    /\ fed_again = {}
    /\ store_faulty = FALSE
    /\ upstream_markets = Reaction.Markets
    /\ markets_cache = <<>>
    /\ last_cache_update = 0
    /\ rel_in = NoRelIn
    /\ rel_out = NoRelOut
    /\ CorrelatorIdle

\* the posts or news one fetch returns: one signal, the first signal twice,
\* or the first two signals
Batches(signals) ==
    {<<s>> : s \in Range(signals)} \cup {<<signals[1], signals[i]>> : i \in 1..2}

\* TelegramBot.send_message answers the correlators, which ignore the answer
SignalSendOutcomes == {TRUE}

\* an iteration of the social loop that no exception leaves; the markets API
\* answers (its failures are the matter of SpecMatch and SpecRefresh)
SocialIterationStep ==
    /\ \E all_posts \in Batches(Reaction.Posts), tgOk \in SignalSendOutcomes :
           MonitorSocialIteration(all_posts, TRUE, tgOk, 0)
    /\ UNCHANGED loops

\* an iteration of the news loop that no exception leaves
NewsIterationStep ==
    /\ \E news_items \in Batches(Reaction.News), tgOk \in SignalSendOutcomes :
           MonitorNewsIteration(news_items, TRUE, tgOk, 0)
    /\ UNCHANGED loops

NextReaction == SocialIterationStep \/ NewsIterationStep

SpecReaction == InitReaction /\ [][NextReaction]_vars

----------------------------------------------------------------------------
(* The social correlator after a long run: processed_posts is full *)

\* a post of the last hour, which every fetch returns again
RecentPost == [Reaction.Posts[2] EXCEPT !.post_id = processed_limit + 1]

\* the correlator has handled processed_limit posts (ids 1..processed_limit),
\* none of them trimmed yet; no trade is in the database
InitDedup ==
    /\ now = StartTime
    /\ config = [MIN_SEVERITY |-> "MEDIUM", telegram |-> TRUE]
    /\ upstream_activity = [w \in Wallets |-> <<>>]
    /\ upstream_positions = [w \in Wallets |-> <<>>]
    /\ wallet_cache = [w \in Wallets |-> NoneVal]
    /\ cache_timestamps = [w \in Wallets |-> NoneVal]
    /\ db_wallet_stats = [w \in Wallets |-> NoneVal]
    /\ db_trades = <<>>
    /\ db_alerts = <<>>
    /\ processed_trades = {}
    /\ telegram_log = <<>>
    /\ last = NoLast
    /\ call_log = [w \in Wallets |-> NoneVal]
    /\ alerts_generated = [x \in TxIds |-> 0]
    /\ fed_again = {}
    /\ store_faulty = FALSE
    /\ upstream_markets = Reaction.Markets
    /\ markets_cache = <<>>
    /\ last_cache_update = 0
    /\ rel_in = NoRelIn
    /\ rel_out = NoRelOut
    /\ processed_news = {}
    /\ processed_posts = 1..processed_limit
    /\ reaction_log = <<>>
    /\ news_matcher = [markets_cache |-> <<>>, last_cache_update |-> 0]
    /\ correlated = [once |-> 1..processed_limit, again |-> {}]
    /\ loops = [l \in Loops |-> "ready"]

\* an iteration of the social loop whose fetch returns the recent post
RefetchStep ==
    /\ Len(telegram_log) < MaxResends
    /\ MonitorSocialIteration(<<RecentPost>>, TRUE, TRUE, 0)
    /\ UNCHANGED loops

NextDedup == RefetchStep

SpecDedup == InitDedup /\ [][NextDedup]_vars

----------------------------------------------------------------------------
(* The three polling loops under asyncio.gather *)

\* "except Exception" missing from the loop: the exception leaves the
\* coroutine, gather re-raises it and asyncio.run cancels the sibling tasks
after_iteration_uncaught(ls, l, raised) ==
    IF raised THEN [k \in Loops |-> "dead"] ELSE [ls EXCEPT ![l] = "sleeping"]

\* the end of one pass through "while True: try: ... except Exception": the
\* loop sleeps its interval at the end of the try block, or in the handler
\* when an exception left the block
after_iteration(ls, l, raised) ==
    [ls EXCEPT ![l] = IF raised THEN "caught" ELSE "sleeping"]

\* one iteration of poll_recent_trades over one tracked market: requests.get
\* raises, or it answers with the trade tx, which process_trade handles
PollRecentTrades(tx, requestOk) ==
    /\ loops["trade"] = "ready"
    /\ IF requestOk
       THEN /\ \/ ProcessTradeSkip(tx)
               \/ ProcessTradeNew(tx, TradeWallet(tx), HUGE_BET)
            /\ loops' = after_iteration(loops, "trade", last'.raised)
       ELSE /\ loops' = after_iteration(loops, "trade", TRUE)
            /\ UNCHANGED <<wallet_cache, cache_timestamps, db_wallet_stats, db_trades,
                           db_alerts, processed_trades, telegram_log, last, call_log,
                           alerts_generated, fed_again>>
    /\ UNCHANGED <<now, config, upstream_activity, upstream_positions, store_faulty,
                   upstream_markets, markets_cache, last_cache_update, rel_in, rel_out,
                   processed_news, processed_posts, reaction_log, news_matcher,
                   correlated>>

\* asyncio.sleep(interval) returns: the loop is at "while True" again
Wake(l) ==
    /\ loops[l] \in {"sleeping", "caught"}
    /\ loops' = [loops EXCEPT ![l] = "ready"]
    /\ UNCHANGED <<scanner_vars, upstream_markets, markets_cache, last_cache_update,
                   rel_in, rel_out, processed_news, processed_posts, reaction_log,
                   news_matcher, correlated>>

\* the scanner with one tracked market, wallets without history (the alert
\* of their trade cannot be formatted) and the correlators' markets
InitLoops ==
    /\ now = StartTime
    /\ config = [MIN_SEVERITY |-> "MEDIUM", telegram |-> TRUE]
    /\ upstream_activity = [w \in Wallets |-> NoProfile.activity]
    /\ upstream_positions = [w \in Wallets |-> NoProfile.positions]
    /\ wallet_cache = [w \in Wallets |-> NoneVal]
    /\ cache_timestamps = [w \in Wallets |-> NoneVal]
    /\ db_wallet_stats = [w \in Wallets |-> NoneVal]
    /\ db_trades = <<>>
    /\ db_alerts = <<>>
    /\ processed_trades = {}
    /\ telegram_log = <<>>
    /\ last = NoLast
    /\ call_log = [w \in Wallets |-> NoneVal]
    /\ alerts_generated = [x \in TxIds |-> 0]
    /\ fed_again = {}
    /\ store_faulty = FALSE
    /\ upstream_markets = Reaction.Markets
    /\ markets_cache = <<>>
    /\ last_cache_update = 0
    /\ rel_in = NoRelIn
    /\ rel_out = NoRelOut
    /\ CorrelatorIdle

\* an iteration that finds nothing to handle: the poll is answered without
\* trades (or not with status 200), the fetch returns no news, no posts
IdleIteration(l) ==
    /\ loops[l] = "ready"
    /\ loops' = after_iteration(loops, l, FALSE)
    /\ reaction_log' = IF l = "trade" THEN reaction_log ELSE <<>>
    /\ UNCHANGED <<scanner_vars, upstream_markets, markets_cache, last_cache_update,
                   rel_in, rel_out, processed_news, processed_posts, news_matcher,
                   correlated>>

TradeLoopStep ==
    \/ \E tx \in {"tx1", ""}, requestOk \in BOOLEAN : PollRecentTrades(tx, requestOk)
    \/ IdleIteration("trade")

\* an iteration of monitor_news_correlation: it runs to its end or an
\* exception leaves it while item raised_at is handled
NewsLoopStep ==
    /\ loops["news"] = "ready"
    /\ \E news_items \in {<<>>, <<Reaction.News[1]>>, <<Reaction.News[1], Reaction.News[2]>>} :
         \E raised_at \in 0..Len(news_items) :
            /\ MonitorNewsIteration(news_items, TRUE, TRUE, raised_at)
            /\ loops' = after_iteration(loops, "news", raised_at > 0)

\* an iteration of monitor_social_activity
SocialLoopStep ==
    /\ loops["social"] = "ready"
    /\ \E all_posts \in {<<>>, <<Reaction.Posts[1]>>,
                         <<Reaction.Posts[1], Reaction.Posts[3]>>} :
         \E raised_at \in 0..Len(all_posts) :
            /\ MonitorSocialIteration(all_posts, TRUE, TRUE, raised_at)
            /\ loops' = after_iteration(loops, "social", raised_at > 0)

WakeStep == \E l \in Loops : Wake(l)

NextLoops == TradeLoopStep \/ NewsLoopStep \/ SocialLoopStep \/ WakeStep

SpecLoops == InitLoops /\ [][NextLoops]_vars

\* one iteration of poll_recent_trades over two tracked markets (lines
\* 766-793): the request for the first market is answered with status 200 and
\* no trade ("empty"), with another status ("status"), or requests.get
\* raises ("raised"); the second market has the trade tx upstream
PollTwoMarkets(first, tx, value) ==
    /\ loops["trade"] = "ready"
    /\ IF first = "raised"
       THEN /\ loops' = after_iteration(loops, "trade", TRUE)
            /\ last' = [NoLast EXCEPT !.op = "poll_raised", !.tx = tx]
            /\ UNCHANGED <<wallet_cache, cache_timestamps, db_wallet_stats, db_trades,
                           db_alerts, processed_trades, telegram_log, call_log,
                           alerts_generated, fed_again>>
       ELSE /\ \/ ProcessTradeSkip(tx)
               \/ ProcessTradeNew(tx, TradeWallet(tx), value)
            /\ loops' = after_iteration(loops, "trade", last'.raised)
    /\ UNCHANGED <<now, config, upstream_activity, upstream_positions, store_faulty,
                   upstream_markets, markets_cache, last_cache_update, rel_in, rel_out,
                   processed_news, processed_posts, reaction_log, news_matcher,
                   correlated>>

PollStep ==
    \E first \in {"empty", "status", "raised"}, tx \in TxIds, value \in Main.Values :
        PollTwoMarkets(first, tx, value)

NextPoll == PollStep \/ WakeStep

\* The trade loop alone, polling two markets
SpecPoll == InitLoops /\ [][NextPoll]_vars

\* the event loop runs every task that can run, and every sleep ends: a
\* loop at "while True" runs an iteration (its idle iteration is enabled
\* exactly when any of its iterations is, and every iteration leaves
\* "ready", so fairness to the idle iteration is fairness to the loop)
SpecLoopsLive ==
    /\ SpecLoops
    /\ \A l \in Loops : WF_vars(IdleIteration(l)) /\ WF_vars(Wake(l))

----------------------------------------------------------------------------
(* The loops between their suspension points.  The three coroutines run in
   one thread; the event loop resumes a task only when the running one has
   reached an await that suspends (asyncio.sleep).  analyze_wallet,
   _update_markets_cache, save_alert, send_message and mark_alert_sent are
   plain functions; _analyze_market_reaction and the alert senders of the
   correlators are awaited but hold no await that suspends. *)

\* the positions with the markets' refresh taken for a suspension point
suspension_point_in_refresh(pos) ==
    pos \in {"ready", "market_sleep", "post_sleep", "sleeping", "caught", "in_refresh"}

\* the positions where a coroutine is suspended: before its iteration
\* ("while True" after the sleep returned), in asyncio.sleep(0.5) between two
\* markets, in asyncio.sleep(1) between two accounts, in asyncio.sleep(interval)
\* at the end of the try block or in the handler
suspension_point(pos) ==
    pos \in {"ready", "market_sleep", "post_sleep", "sleeping", "caught"}

\* where loop l goes from position pos.  poll_recent_trades: the request,
\* then process_trade (analyze_wallet between its cache check and its cache
\* write, the alert between save_alert and mark_alert_sent), the sleep after
\* the market, the sleep after the last market.  monitor_news_correlation:
\* the fetch, find_matching_markets with the refresh of its matcher, the
\* reactions, the sleep.  monitor_social_activity: the fetch and the sleep
\* per account, _find_matching_markets with the refresh, the sleep
next_positions(l, pos) ==
    IF pos \in {"sleeping", "caught"} THEN {"ready"}
    ELSE IF l = "trade" THEN
        CASE pos = "ready"        -> {"in_analyze", "market_sleep", "caught"}
          [] pos = "in_analyze"   -> {"analyzed"}
          [] pos = "analyzed"     -> {"alert_saved", "market_sleep"}
          [] pos = "alert_saved"  -> {"alert_marked", "market_sleep", "caught"}
          [] pos = "alert_marked" -> {"market_sleep"}
          [] pos = "market_sleep" -> {"in_analyze", "market_sleep", "sleeping", "caught"}
    ELSE IF l = "news" THEN
        CASE pos = "ready"        -> {"in_refresh", "sleeping", "caught"}
          [] pos = "in_refresh"   -> {"refreshed"}
          [] pos = "refreshed"    -> {"sleeping", "caught"}
    ELSE
        CASE pos = "ready"        -> {"post_sleep", "in_refresh", "sleeping", "caught"}
          [] pos = "post_sleep"   -> {"post_sleep", "in_refresh", "sleeping", "caught"}
          [] pos = "in_refresh"   -> {"refreshed"}
          [] pos = "refreshed"    -> {"sleeping", "caught"}

\* the event loop runs loop l up to its next position: it resumes l only when
\* every other task is suspended
RunLoop(l) ==
    /\ \A k \in Loops \ {l} : suspension_point(loops[k])
    /\ \E pos \in next_positions(l, loops[l]) : loops' = [loops EXCEPT ![l] = pos]
    /\ UNCHANGED <<scanner_vars, upstream_markets, markets_cache, last_cache_update,
                   rel_in, rel_out, processed_news, processed_posts, reaction_log,
                   news_matcher, correlated>>

NextSections == \E l \in Loops : RunLoop(l)

SpecSections == InitLoops /\ [][NextSections]_vars

----------------------------------------------------------------------------
(* Startup: the main functions of polymarket_scanner.py, scanner_with_news.py
   and scanner_full.py *)

\* validate_config without its two tests of the bet-size tiers
validate_config_no_tiers(cfg) ==
    /\ ~(cfg.telegram /\ ~cfg.token_set)
    /\ ~(HIGH_WIN_RATE_PCT < 50 \/ HIGH_WIN_RATE_PCT > 100)

\* config.validate_config(): no error was appended
validate_config(cfg) ==
    /\ ~(cfg.telegram /\ ~cfg.token_set)
    /\ ~(cfg.tiers[1] >= cfg.tiers[2])
    /\ ~(cfg.tiers[2] >= cfg.tiers[3])
    /\ ~(HIGH_WIN_RATE_PCT < 50 \/ HIGH_WIN_RATE_PCT > 100)

\* the entry points, and the tiers LARGE_BET_THRESHOLD, VERY_LARGE_BET_THRESHOLD,
\* HUGE_BET_THRESHOLD a config.py can hold: the shipped ones, two equal, out of order
Startup ==
    [Entries |-> {"polymarket_scanner", "scanner_with_news", "scanner_full"},
     Tiers |-> {<<LARGE_BET, VERY_LARGE_BET, HUGE_BET>>,
                <<VERY_LARGE_BET, VERY_LARGE_BET, HUGE_BET>>,
                <<LARGE_BET, HUGE_BET, HUGE_BET>>,
                <<LARGE_BET, HUGE_BET, VERY_LARGE_BET>>}]

\* the loops the entry point hands to the event loop; scanner_full.py with
\* social monitoring enabled raises ImportError at line 112 (social_monitor
\* has no MarketMatcher) before it reaches asyncio.gather
started_loops(entry, news_enabled, social_enabled) ==
    IF entry = "polymarket_scanner" THEN {"trade"}
    ELSE IF entry = "scanner_with_news"
    THEN IF news_enabled THEN {"trade", "news"} ELSE {"trade"}
    ELSE IF social_enabled THEN {}
    ELSE IF news_enabled THEN {"trade", "news"} ELSE {"trade"}

\* main(): validate the configuration and return if it fails; else build the
\* scanner, send the start message and start the loops
main(entry, news_enabled, social_enabled, tgOk) ==
    /\ \A l \in Loops : loops[l] = "off"
    /\ IF ~validate_config(config)
       THEN /\ loops' = [l \in Loops |-> "aborted"]
            /\ UNCHANGED telegram_log
       ELSE /\ telegram_log' = IF config.telegram
                               THEN Append(telegram_log, [alert_id |-> 0, ok |-> tgOk])
                               ELSE telegram_log
            /\ loops' = [l \in Loops |->
                           IF started_loops(entry, news_enabled, social_enabled) = {}
                           THEN "aborted"
                           ELSE IF l \in started_loops(entry, news_enabled, social_enabled)
                           THEN "ready" ELSE "off"]
    /\ UNCHANGED <<now, config, upstream_activity, upstream_positions, wallet_cache,
                   cache_timestamps, db_wallet_stats, db_trades, db_alerts,
                   processed_trades, last, call_log, alerts_generated, fed_again,
                   store_faulty, upstream_markets, markets_cache, last_cache_update,
                   rel_in, rel_out, processed_news, processed_posts, reaction_log,
                   news_matcher, correlated>>

\* before main(): an empty database, a config.py with some tiers
InitStartup ==
    /\ now = StartTime
    /\ config \in [MIN_SEVERITY : {"MEDIUM"}, telegram : BOOLEAN, token_set : BOOLEAN,
                    tiers : Startup.Tiers]
    /\ upstream_activity = [w \in Wallets |-> NoProfile.activity]
    /\ upstream_positions = [w \in Wallets |-> NoProfile.positions]
    /\ wallet_cache = [w \in Wallets |-> NoneVal]
    /\ cache_timestamps = [w \in Wallets |-> NoneVal]
    /\ db_wallet_stats = [w \in Wallets |-> NoneVal]
    /\ db_trades = <<>>
    /\ db_alerts = <<>>
    /\ processed_trades = {}
    /\ telegram_log = <<>>
    /\ last = NoLast
    /\ call_log = [w \in Wallets |-> NoneVal]
    /\ alerts_generated = [x \in TxIds |-> 0]
    /\ fed_again = {}
    /\ store_faulty = FALSE
    /\ upstream_markets = Reaction.Markets
    /\ markets_cache = <<>>
    /\ last_cache_update = 0
    /\ rel_in = NoRelIn
    /\ rel_out = NoRelOut
    /\ processed_news = {}
    /\ processed_posts = {}
    /\ reaction_log = <<>>
    /\ news_matcher = [markets_cache |-> <<>>, last_cache_update |-> 0]
    /\ correlated = [once |-> {}, again |-> {}]
    /\ loops = [l \in Loops |-> "off"]

MainStep ==
    \E entry \in Startup.Entries, news_enabled, social_enabled \in BOOLEAN :
        main(entry, news_enabled, social_enabled, TRUE)

NextStartup == MainStep \/ TradeLoopStep \/ NewsLoopStep \/ WakeStep

SpecStartup == InitStartup /\ [][NextStartup]_vars

----------------------------------------------------------------------------
(* Properties of the classifier *)

Classified == last.op \in {"generate_alert", "process_trade"}

\* C1: a trade whose USD value is below LARGE_BET gets no alert, whatever the
\* wallet profile is, present or absent
C1_BelowLargeBetNoAlert ==
    (Classified /\ last.usdc_value < LARGE_BET) => last.alert = NoneVal

C1_Witness ==
    /\ last.op = "generate_alert"
    /\ last.usdc_value = LARGE_BET - 1
    /\ last.wallet_stats # NoneVal
    /\ last.alert = NoneVal

\* C2: a trade whose USD value is at or above HUGE_BET gets an alert of
\* severity CRITICAL, whatever the wallet profile is
C2_HugeBetCritical ==
    (Classified /\ last.usdc_value >= HUGE_BET) =>
        (last.alert # NoneVal /\ Val(last.alert).severity = "CRITICAL")

C2_Witness ==
    /\ last.op = "generate_alert"
    /\ last.usdc_value >= HUGE_BET
    /\ last.wallet_stats # NoneVal
    /\ Val(last.wallet_stats).total_trades < LOW_TRADE_COUNT
    /\ Cardinality(Val(last.wallet_stats).markets_traded) > 1
    /\ Val(last.alert).severity = "CRITICAL"

\* C3: when a base tier fired and the wallet profile has exactly one distinct
\* market, the alert is CRITICAL, also for a trade of exactly LARGE_BET
C3_SingleMarketCritical ==
    (/\ Classified
     /\ last.usdc_value >= LARGE_BET
     /\ last.wallet_stats # NoneVal
     /\ Cardinality(Val(last.wallet_stats).markets_traded) = 1) =>
        (last.alert # NoneVal /\ Val(last.alert).severity = "CRITICAL")

\* an old wallet with many trades and a plain win rate, one market, exactly LARGE_BET
C3_Witness ==
    /\ last.op = "generate_alert"
    /\ last.usdc_value = LARGE_BET
    /\ last.wallet_stats # NoneVal
    /\ Cardinality(Val(last.wallet_stats).markets_traded) = 1
    /\ Val(last.wallet_stats).total_trades >= LOW_TRADE_COUNT
    /\ Val(last.alert).reason.flags = <<[flag |-> "Only trades this market", n |-> 0]>>
    /\ Val(last.alert).severity = "CRITICAL"

----------------------------------------------------------------------------
(* Properties of the ingestion path and of the alert ledger *)

TradeRows(tx) == {i \in DOMAIN db_trades : db_trades[i].transaction_hash = tx}

SendsFor(id) == {k \in DOMAIN telegram_log : telegram_log[k].alert_id = id}

\* no alert row goes from sent back to not-sent, and no row disappears
StaysSent ==
    \A i \in DOMAIN db_alerts :
        db_alerts[i].sent_to_telegram = 1 =>
            (i \in DOMAIN db_alerts' /\ db_alerts'[i].sent_to_telegram = 1)

\* the transport gets at most one send per alert, and none after it is sent
AtMostOneSend ==
    \A i \in DOMAIN db_alerts : Cardinality(SendsFor(i)) <= 1

\* C5: the delivery state of an alert goes from not-sent to sent at most once
\* and never back, and the transport receives at most one send for the alert
C5_SentOnceNeverBack == [][StaysSent]_vars /\ []AtMostOneSend

\* a first alert was sent, a second one failed at the transport afterwards
C5_Witness ==
    /\ Len(db_alerts) = 2
    /\ db_alerts[1].sent_to_telegram = 1
    /\ db_alerts[2].sent_to_telegram = 0
    /\ Cardinality(SendsFor(1)) = 1
    /\ Cardinality(SendsFor(2)) = 1

\* C6: an alert below the configured floor is persisted in the alerts table
\* and is not submitted to the transport
C6_BelowFloorPersistedNotSent ==
    (/\ last.op = "process_trade"
     /\ last.alert # NoneVal
     /\ severity_levels[Val(last.alert).severity] < severity_levels[config.MIN_SEVERITY]) =>
        (/\ Len(db_alerts) = last.alerts_before + 1
         /\ db_alerts[Len(db_alerts)].alert = Val(last.alert)
         /\ Len(telegram_log) = last.sends_before)

----------------------------------------------------------------------------
(* Properties of the wallet profile cache *)

\* C7: two non-forced analyses of a wallet within one TTL window make at most
\* one upstream activity query between them, also when the first found nothing
C7_OneFetchPerWindow ==
    last.refetch_gap # NoneVal => Val(last.refetch_gap) >= cache_ttl

\* C8: a non-forced analysis of a wallet whose cache entry is missing or older
\* than the TTL queries the upstream activity
C8_StaleEntryRefetched ==
    (/\ last.op \in {"analyze_wallet", "generate_alert", "process_trade"}
     /\ ~last.forced
     /\ last.stale) => last.fetched

----------------------------------------------------------------------------
(* Properties of the relevance matchers *)

\* C9: for every signal text, keyword list, account name and market text, the
\* relevance score returned by the news matcher and by the social matcher
\* lies in [0,1]
C9_RelevanceInUnitInterval ==
    rel_out.op \in {"news", "social"} =>
        /\ Val(rel_out.score) >= 0
        /\ Val(rel_out.score) <= Scale

\* a news score of exactly 1.0: every keyword, ten common words and every
\* entity are found in the market text
C9_Witness ==
    /\ rel_out.op = "news"
    /\ rel_in.keywords # <<>>
    /\ extract_entities(rel_in.signal_text) # {}
    /\ Val(rel_out.score) = Scale

\* the confidence of a cached market for the signal of the last call
LastConfidence(market) ==
    IF rel_out.op = "news_match" THEN news_confidence(rel_out.signal, market)
    ELSE social_confidence(rel_out.signal, market)

\* C10: find_matching_markets returns only cached markets whose confidence is
\* at least the threshold, in order of non-increasing confidence, at most 5 of
\* them, and when more than 5 qualify the 5 with the highest confidence
C10_TopFiveMatches ==
    rel_out.op \in {"news_match", "social_match"} =>
        LET matches == rel_out.matches
            conf == [i \in DOMAIN markets_cache |-> LastConfidence(markets_cache[i])]
            qualifying == {i \in DOMAIN markets_cache : conf[i] >= rel_out.min_confidence}
            returned == {i \in DOMAIN markets_cache :
                            \E k \in DOMAIN matches : matches[k].slug = markets_cache[i].slug}
        IN /\ \A k \in DOMAIN matches :
                 \E i \in qualifying :
                    /\ markets_cache[i].slug = matches[k].slug
                    /\ conf[i] = matches[k].confidence
           /\ \A k, l \in DOMAIN matches :
                 k < l => /\ matches[k].confidence >= matches[l].confidence
                          /\ matches[k].slug # matches[l].slug
           /\ Len(matches) <= TopN
           /\ Len(matches) = Min2(Cardinality(qualifying), TopN)
           /\ \A i \in qualifying \ returned : \A k \in DOMAIN matches :
                 conf[i] <= matches[k].confidence

\* more than five markets qualify, with different confidences, and one of the
\* best is cached after a lesser one that is left out
C10_Witness ==
    /\ rel_out.op \in {"news_match", "social_match"}
    /\ Len(rel_out.matches) = TopN
    /\ rel_out.matches[1].confidence > rel_out.matches[TopN].confidence
    /\ LET conf == [i \in DOMAIN markets_cache |-> LastConfidence(markets_cache[i])]
           qualifying == {i \in DOMAIN markets_cache : conf[i] >= rel_out.min_confidence}
           returned == {i \in DOMAIN markets_cache :
                           \E k \in DOMAIN rel_out.matches :
                              rel_out.matches[k].slug = markets_cache[i].slug}
       IN /\ Cardinality(qualifying) > TopN
          /\ \E i \in qualifying \ returned : \E j \in returned :
                i < j /\ conf[i] < conf[j]

----------------------------------------------------------------------------
(* Properties of the market cache *)

\* C11: when a refresh of the market cache fails (the market listing fails
\* upstream), the markets cached before are left as they were
C11_FailedRefreshKeepsCache ==
    [][rel_out'.refresh = "failed" => markets_cache' = markets_cache]_vars

----------------------------------------------------------------------------
(* Properties of the correlators *)

\* C12: a reaction alert is raised for a matched market with no recent trade
\* if and only if the confidence of the match is at least 0.8 and the
\* account of the signal is a high-priority account; a news signal never
\* raises one without trades
C12_ZeroTradeAlertIffAllowlisted ==
    \A i \in DOMAIN reaction_log :
        reaction_log[i].trades = 0 =>
            (reaction_log[i].alerted <=>
                /\ reaction_log[i].kind = "social"
                /\ reaction_log[i].confidence >= AllowlistConfidence
                /\ lower(reaction_log[i].username) \in HighPriorityAccounts)

\* C13: in every interleaving of the three loops an exception raised inside an
\* iteration never leaves the loop (no loop dies), the loop that caught it
\* starts its next iteration after its sleep, and every loop keeps starting
\* new iterations for ever
C13_LoopsSurviveExceptions ==
    /\ [](\A l \in Loops : loops[l] # "dead")
    /\ \A l \in Loops : (loops[l] = "caught") ~> (loops[l] = "ready")
    /\ \A l \in Loops : []<>(loops[l] = "ready") /\ []<>(loops[l] = "sleeping" \/ loops[l] = "caught")

\* one loop is in its handler while a sibling has finished an iteration
C13_Witness ==
    \E l, k \in Loops : l # k /\ loops[l] = "caught" /\ loops[k] = "sleeping"

\* C14: when the transport reports failure for an alert, the alert stays
\* not-sent, the caller of send_alert is told of the failure (it gets False
\* back), and the transport was called once only for that alert
C14_FailureStaysUnsentAndReported ==
    (/\ last.op = "process_trade"
     /\ Len(telegram_log) > last.sends_before
     /\ ~telegram_log[Len(telegram_log)].ok)
        => /\ db_alerts[telegram_log[Len(telegram_log)].alert_id].sent_to_telegram = 0
           /\ Len(telegram_log) = last.sends_before + 1
           /\ last.send_result = Some(FALSE)

\* C15: with bet-size tiers that are not strictly increasing no polling loop
\* ever starts: no trade is processed, no alert is recorded or sent
C15_InvalidTiersNothingStarts ==
    ~(config.tiers[1] < config.tiers[2] /\ config.tiers[2] < config.tiers[3])
        => /\ \A l \in Loops : loops[l] \in {"off", "aborted"}
           /\ processed_trades = {}
           /\ db_trades = <<>>
           /\ db_alerts = <<>>
           /\ telegram_log = <<>>

\* main() has returned on a configuration whose tiers are out of order
C15_Witness ==
    /\ config.tiers[2] >= config.tiers[3]
    /\ ~(config.telegram /\ ~config.token_set)
    /\ \A l \in Loops : loops[l] = "aborted"

\* C16: every message the transport received for an alert belongs to a row
\* of the alerts table written before the call, whose severity is not below
\* the configured floor
C16_SentAlertsWerePersistedAndGated ==
    \A i \in DOMAIN telegram_log :
        /\ telegram_log[i].alert_id \in DOMAIN db_alerts
        /\ severity_levels[db_alerts[telegram_log[i].alert_id].alert.severity]
              >= severity_levels[config.MIN_SEVERITY]

\* C17: a news URL or post id that was handed to market matching once is
\* never handed to it again, whatever the seen-set has dropped since
C17_NeverCorrelatedTwice ==
    correlated.again = {}

----------------------------------------------------------------------------
(* The reason of an alert *)

\* the flags in the order the rules append them
FlagOrder == <<"New wallet", "Only trades", "High win rate", "Only trades this market">>

FlagRank(flag) == CHOOSE k \in DOMAIN FlagOrder : FlagOrder[k] = flag

FlagsInOrder(flags) ==
    \A i, j \in DOMAIN flags : i < j => FlagRank(flags[i].flag) < FlagRank(flags[j].flag)

\* a trade of at least HUGE_BET by a wallet younger than NEW_WALLET_HOURS with
\* fewer than LOW_TRADE_COUNT trades has just been classified
HugeNewLowTrade ==
    /\ last.op = "generate_alert"
    /\ last.usdc_value >= HUGE_BET
    /\ last.wallet_stats # NoneVal
    /\ Val(last.wallet_stats).total_trades < LOW_TRADE_COUNT
    /\ last.alert # NoneVal
    /\ Val(last.alert).wallet_age_hours # NoneVal
    /\ Val(Val(last.alert).wallet_age_hours) < NEW_WALLET_HOURS * Hour

\* the scenario: $75,000, 10 hours, 3 trades
HugeScenario ==
    /\ HugeNewLowTrade
    /\ last.usdc_value = 75000
    /\ Val(Val(last.alert).wallet_age_hours) = 10 * Hour
    /\ Val(last.wallet_stats).total_trades = 3

\* the alert is CRITICAL and its reason is "Huge $<value> bet" followed by
\* the flags in the fixed order
HugeReason ==
    HugeNewLowTrade =>
        /\ Val(last.alert).severity = "CRITICAL"
        /\ Val(last.alert).reason.text = "Huge"
        /\ Val(last.alert).reason.value = last.usdc_value
        /\ FlagsInOrder(Val(last.alert).reason.flags)

\* C18 as stated: a trade of at least HUGE_BET by a wallet younger than
\* NEW_WALLET_HOURS with fewer than LOW_TRADE_COUNT trades is CRITICAL, its
\* reason is the base description followed by the flags in the fixed order,
\* and for $75,000, 10 hours, 3 trades it contains "Huge $75,000 bet",
\* "new wallet (10h old)" and "Only 3 trades"
C18_Original ==
    /\ HugeReason
    /\ HugeScenario =>
          /\ Val(last.alert).reason.flags[1] = [flag |-> "new wallet", n |-> 10]
          /\ Val(last.alert).reason.flags[2] = [flag |-> "Only trades", n |-> 3]

\* C18, amended: the same with the flag as the code writes it,
\* "New wallet (10h old)"
C18_HugeBetReason ==
    /\ HugeReason
    /\ HugeScenario =>
          /\ Val(last.alert).reason.flags[1] = [flag |-> "New wallet", n |-> 10]
          /\ Val(last.alert).reason.flags[2] = [flag |-> "Only trades", n |-> 3]

\* the scenario has been classified, and a single-market flag came last
C18_Witness ==
    /\ HugeScenario
    /\ Len(Val(last.alert).reason.flags) = 3
    /\ Val(last.alert).reason.flags[3].flag = "Only trades this market"

----------------------------------------------------------------------------
(* Properties of the sub-scores *)

\* the keywords that occur in the text, whatever the case of either
FoundIgnoringCase(keywords, market_text) ==
    {i \in DOMAIN keywords : contains(lower(keywords[i]), lower(market_text))}

C20_IdenticalTextsFullOverlap ==
    (rel_out.op \in {"news", "social"}
       /\ rel_in.signal_text = rel_in.market_text
       /\ rel_in.market_text = lower(rel_in.market_text)) =>
        rel_out.overlap_score = OverlapWeight

----------------------------------------------------------------------------
(* Properties of the wallet profile and of the escalation rules *)

\* the flags of the last alert
LastFlags == {Val(last.alert).reason.flags[i].flag : i \in DOMAIN Val(last.alert).reason.flags}

\* C21: the win rate of a computed profile is the number of profitable
\* positions over the number of positions the positions source answered, it is
\* absent when there is no position, and an absent win rate does not give the
\* high-win-rate flag
C21_WinRateFromPositions ==
    (last.op = "generate_alert" /\ last.wallet_stats # NoneVal) =>
        /\ Len(upstream_positions["w1"]) = 0 => Val(last.wallet_stats).win_rate = NoneVal
        /\ Len(upstream_positions["w1"]) > 0 =>
               Val(last.wallet_stats).win_rate =
                   Some([p |-> Cardinality({i \in DOMAIN upstream_positions["w1"] :
                                               upstream_positions["w1"][i] > 0}),
                         n |-> Len(upstream_positions["w1"])])
        /\ (Val(last.wallet_stats).win_rate = NoneVal /\ last.alert # NoneVal) =>
               "High win rate" \notin LastFlags

\* a wallet without positions was classified: old, many trades, two markets,
\* and the alert stays at the base severity
C21_Witness ==
    /\ last.op = "generate_alert"
    /\ last.usdc_value = LARGE_BET
    /\ upstream_positions["w1"] = <<>>
    /\ last.wallet_stats # NoneVal
    /\ Val(last.wallet_stats).win_rate = NoneVal
    /\ Val(last.alert).severity = "MEDIUM"

\* the kind and the base severity of a value, tier by tier from the top
TierKind(value) ==
    IF value >= HUGE_BET THEN "HUGE_BET"
    ELSE IF value >= VERY_LARGE_BET THEN "VERY_LARGE_BET" ELSE "LARGE_BET"

TierSeverity(value) ==
    IF value >= HUGE_BET THEN "CRITICAL"
    ELSE IF value >= VERY_LARGE_BET THEN "HIGH" ELSE "MEDIUM"

\* C22: the kind of an alert is the kind of the first value tier that matches,
\* HUGE_BET, VERY_LARGE_BET or LARGE_BET, whatever the escalation did to the
\* severity; without a wallet profile the severity is the tier's base severity
C22_KindFromValueTier ==
    (Classified /\ last.usdc_value >= LARGE_BET) =>
        /\ last.alert # NoneVal
        /\ Val(last.alert).alert_type = TierKind(last.usdc_value)
        /\ last.wallet_stats = NoneVal =>
               Val(last.alert).severity = TierSeverity(last.usdc_value)

\* a VERY_LARGE_BET alert escalated to CRITICAL keeps its kind
C22_Witness ==
    /\ last.op = "generate_alert"
    /\ last.usdc_value = VERY_LARGE_BET
    /\ last.alert # NoneVal
    /\ Val(last.alert).alert_type = "VERY_LARGE_BET"
    /\ Val(last.alert).severity = "CRITICAL"

\* C23: the severity of an alert is at least the base severity of its value
\* tier, for every wallet profile and every combination of rules
C23_EscalationNeverLowers ==
    (Classified /\ last.alert # NoneVal) =>
        severity_levels[Val(last.alert).severity] >=
            severity_levels[TierSeverity(last.usdc_value)]

\* a HUGE_BET alert on which the low-trade-count rule and the high-win-rate
\* rule both fired, and no rule that sets CRITICAL
C23_Witness ==
    /\ last.op = "generate_alert"
    /\ last.usdc_value >= HUGE_BET
    /\ last.alert # NoneVal
    /\ LastFlags = {"Only trades", "High win rate"}
    /\ Val(last.alert).severity = "CRITICAL"

\* C24: when a base tier fired and the age of the wallet is known and below
\* the configured NEW_WALLET_HOURS, an age of 0 included, the new-wallet flag
\* is appended, and below VERY_NEW_WALLET_HOURS the severity is CRITICAL
C24_NewWalletFlagged ==
    (/\ last.op = "rule_new_wallet"
     /\ Val(last.alert).wallet_age_hours # NoneVal
     /\ Val(Val(last.alert).wallet_age_hours) < config.NEW_WALLET_HOURS * Hour) =>
        /\ "New wallet" \in LastFlags
        /\ Val(Val(last.alert).wallet_age_hours) < config.VERY_NEW_WALLET_HOURS * Hour =>
               Val(last.alert).severity = "CRITICAL"

\* the last alert was made CRITICAL by its tier, by a very new wallet or by
\* the single-market rule
SetCritical ==
    \/ TierSeverity(last.usdc_value) = "CRITICAL"
    \/ "Only trades this market" \in LastFlags
    \/ /\ "New wallet" \in LastFlags
       /\ Val(Val(last.alert).wallet_age_hours) < VERY_NEW_WALLET_HOURS * Hour

\* C25: the low-trade-count flag is appended exactly when the profile has
\* fewer than LOW_TRADE_COUNT trades, the high-win-rate flag exactly when the
\* win rate is present and above HIGH_WIN_RATE; either raises MEDIUM to HIGH
\* and neither changes HIGH or CRITICAL
C25_SoftRulesRaiseMediumOnly ==
    (Classified /\ last.alert # NoneVal /\ last.wallet_stats # NoneVal) =>
        /\ "Only trades" \in LastFlags <=>
               Val(last.wallet_stats).total_trades < LOW_TRADE_COUNT
        /\ "High win rate" \in LastFlags <=>
               /\ Val(last.wallet_stats).win_rate # NoneVal
               /\ Val(Val(last.wallet_stats).win_rate).p * 100 >
                      HIGH_WIN_RATE_PCT * Val(Val(last.wallet_stats).win_rate).n
        /\ SetCritical => Val(last.alert).severity = "CRITICAL"
        /\ ~SetCritical =>
               Val(last.alert).severity =
                   IF \/ TierSeverity(last.usdc_value) = "HIGH"
                      \/ "Only trades" \in LastFlags
                      \/ "High win rate" \in LastFlags
                   THEN "HIGH" ELSE "MEDIUM"

\* a LARGE_BET alert raised to HIGH by the high-win-rate rule alone
C25_Witness ==
    /\ last.op = "generate_alert"
    /\ last.usdc_value = LARGE_BET
    /\ last.alert # NoneVal
    /\ LastFlags = {"High win rate"}
    /\ Val(last.alert).severity = "HIGH"

----------------------------------------------------------------------------
(* Properties of the write-through of the wallet profile *)

\* C26: a wallet profile present in the in-memory cache is present in the
\* table wallet_stats, in every reachable state, also after a write of the
\* table has failed
C26_CachedProfileIsStored ==
    \A w \in Wallets : wallet_cache[w] # NoneVal => db_wallet_stats[w] # NoneVal

----------------------------------------------------------------------------
(* Properties of the entity sub-score *)

\* the capitalised sequences of the title and content of a signal
SignalEntities(signal) == extract_entities(joined(signal.title, signal.content))

\* 0.3 times the fraction of the signal's entities found in the text of the market
EntityShare(signal, market) ==
    IF SignalEntities(signal) = {} THEN 0
    ELSE (Cardinality({e \in SignalEntities(signal) :
                          contains(e, joined(market.question, market.description))})
            * EntityWeight) \div Cardinality(SignalEntities(signal))

\* C27: the confidence the news matcher gives a market is the keyword
\* sub-score plus the overlap sub-score plus 0.3 times the fraction of the
\* capitalised sequences of the news text found in the market text: the full
\* 0.3 when all of them occur
C27_EntityContribution ==
    rel_out.op = "news_match" =>
        \A i \in DOMAIN rel_out.matches :
            rel_out.matches[i].confidence =
                keyword_score("news", market_text_of(rel_out.matches[i].market),
                              rel_out.signal.keywords)
                + overlap_score(lower(joined(rel_out.signal.title, rel_out.signal.content)),
                                market_text_of(rel_out.matches[i].market))
                + EntityShare(rel_out.signal, rel_out.matches[i].market)

----------------------------------------------------------------------------
(* Properties of the reaction alerts *)

\* the wallets whose stored win rate is above HIGH_WIN_RATE and whose trade
\* count is above LOW_TRADE_COUNT
StoredTopWallets ==
    {w \in DOMAIN db_wallet_stats :
        /\ db_wallet_stats[w] # NoneVal
        /\ Val(db_wallet_stats[w]).win_rate # NoneVal
        /\ Val(Val(db_wallet_stats[w]).win_rate).p * 100
               > HIGH_WIN_RATE_PCT * Val(Val(db_wallet_stats[w]).win_rate).n
        /\ Val(db_wallet_stats[w]).total_trades > LOW_TRADE_COUNT}

\* the least number of recent trades that raises an alert without a top wallet
ReactionMinimum(kind) == IF kind = "news" THEN NewsReactionTrades ELSE SocialReactionTrades

\* C28: for a matched market with at least one recent trade, the reaction
\* alert is raised exactly when a recent trade was made by a top wallet or
\* the recent trades are at least 5 (news) or 3 (social)
C28_ReactionAlertIff ==
    \A i \in DOMAIN reaction_log :
        reaction_log[i].trades >= 1 =>
            (reaction_log[i].alerted <=>
                \/ reaction_log[i].wallets \cap StoredTopWallets # {}
                \/ reaction_log[i].trades >= ReactionMinimum(reaction_log[i].kind))

HighActivity(kind) == IF kind = "news" THEN NewsHighTrades ELSE MarketMovingTrades

----------------------------------------------------------------------------
(* Properties of the seen-signal sets *)

\* C30: at the end of every iteration the set of seen posts holds at most
\* processed_limit identities, and an identity that was trimmed is older than
\* every identity kept (the posts are numbered in the order they were seen)
C30_TrimDropsOldest ==
    /\ Cardinality(processed_posts) <= processed_limit
    /\ \A dropped \in correlated.once \ processed_posts :
           \A kept \in processed_posts : kept > dropped

----------------------------------------------------------------------------
(* Properties of the frame of the classifier and of the trade pipeline *)

\* C31: a call of generate_alert leaves the wallet cache, the cache
\* timestamps, the table wallet_stats and the table alerts as they were, for
\* every trade, those below LARGE_BET included
C31_GenerateAlertChangesNothing ==
    [][last'.op = "generate_alert" =>
          UNCHANGED <<wallet_cache, cache_timestamps, db_wallet_stats, db_alerts>>]_vars

\* C32: when the request for the trades of one tracked market fails, the
\* other markets of the same iteration are still polled and their trades
\* processed: the trade of the second market is in processed_trades after the
\* iteration in which the request for the first market raised
C32_OtherMarketsStillPolled ==
    last.op = "poll_raised" => last.tx \in processed_trades

\* C33: when an exception leaves process_trade, nothing of the trade remains:
\* its hash is not in processed_trades, it has no row in trades and no alert
\* row was added
C33_FailedTradeLeavesNothing ==
    (last.op = "process_trade" /\ last.raised) =>
        /\ last.tx \notin processed_trades
        /\ TradeRows(last.tx) = {}
        /\ Len(db_alerts) = last.alerts_before

----------------------------------------------------------------------------
(* Properties of the age helper *)

\* C34: is_new_wallet answers (new, no age) exactly when the wallet has no
\* profile or its profile has no first trade time; otherwise it answers the
\* age, now minus the first trade time, and new exactly when the age is below
\* its threshold
C34_AgeHelper ==
    last.op = "rule_new_wallet" =>
        IF last.wallet_stats = NoneVal \/ Val(last.wallet_stats).first_trade_time = 0
        THEN /\ Val(last.alert).is_new
             /\ Val(last.alert).wallet_age_hours = NoneVal
        ELSE /\ Val(last.alert).wallet_age_hours =
                    Some(now - Val(last.wallet_stats).first_trade_time)
             /\ Val(last.alert).is_new <=>
                    now - Val(last.wallet_stats).first_trade_time < hours_threshold * Hour

\* the helper has answered for a profile without first trade time
C34_Witness ==
    /\ last.op = "rule_new_wallet"
    /\ last.wallet_stats # NoneVal
    /\ Val(last.wallet_stats).first_trade_time = 0
    /\ Val(last.alert).is_new
    /\ Val(last.alert).wallet_age_hours = NoneVal

----------------------------------------------------------------------------
(* Properties of the entry of process_trade and of send_alert *)

\* C35: a trade record without transaction hash is dropped at the entry of
\* process_trade: the call returns without raising and leaves the trade rows,
\* the seen-set, the wallet profiles, the fetches made, the alert rows and the
\* transport calls as they were
C35_NoHashDropped ==
    [][(last'.op \in {"process_trade", "process_trade_skip"} /\ last'.tx = "") =>
          /\ last'.op = "process_trade_skip"
          /\ ~last'.raised
          /\ UNCHANGED <<db_trades, processed_trades, wallet_cache, cache_timestamps,
                         db_wallet_stats, call_log, db_alerts, telegram_log,
                         alerts_generated>>]_vars

\* a record without hash was fed after other trades were processed
C35_Witness ==
    /\ last.op = "process_trade_skip"
    /\ last.tx = ""
    /\ processed_trades = TxIds
    /\ "" \notin processed_trades
    /\ TradeRows("") = {}

----------------------------------------------------------------------------
(* Properties of the loops between their suspension points *)

\* the positions inside analyze_wallet between the cache check and the cache
\* write, inside a refresh of the markets' cache, between save_alert and
\* mark_alert_sent
Sections == {"in_analyze", "in_refresh", "alert_saved"}

\* C36: in every interleaving of the trade, news and social loops at most one
\* loop at a time is inside analyze_wallet between its cache check and its
\* cache write, inside a refresh of a markets' cache, or between save_alert
\* and mark_alert_sent (whatever the wallet, the matcher, the alert), and while
\* it is there every other loop is suspended
C36_OneLoopInsideSections ==
    \A l \in Loops :
        loops[l] \in Sections =>
            \A k \in Loops \ {l} : loops[k] \notin Sections /\ suspension_point(loops[k])

\* the news loop refreshes its cache while the trade loop and the social loop
\* are suspended in the middle of their iterations
C36_Witness ==
    /\ loops["news"] = "in_refresh"
    /\ loops["trade"] = "market_sleep"
    /\ loops["social"] = "post_sleep"

----------------------------------------------------------------------------
(* Properties of send_alert *)

\* C37: for every alert at or above the floor that send_alert persists while
\* delivery is enabled, also one without wallet age or without win rate,
\* send_alert returns without raising after exactly one transport call, and
\* the row is sent exactly when that call succeeded
C37_SendAlertNeverRaises ==
    (/\ last.op = "process_trade"
     /\ last.alert # NoneVal
     /\ config.telegram
     /\ Len(db_alerts) = last.alerts_before + 1) =>
        /\ ~last.raised
        /\ Len(telegram_log) = last.sends_before + 1
        /\ telegram_log[Len(telegram_log)].alert_id = Len(db_alerts)
        /\ db_alerts[Len(db_alerts)].sent_to_telegram = 1
              <=> telegram_log[Len(telegram_log)].ok

\* C38: every alert row marked sent has a severity at or above the configured
\* floor and a successful transport call for its id; every transport call was
\* made for a row that exists; a send_alert whose save_alert failed (no new
\* row) made no transport call; with delivery disabled no row is sent and no
\* transport call is made
C38_SentRowsWereDelivered ==
    /\ \A i \in DOMAIN db_alerts :
          db_alerts[i].sent_to_telegram = 1 =>
             /\ severity_levels[db_alerts[i].alert.severity]
                   >= severity_levels[config.MIN_SEVERITY]
             /\ \E j \in DOMAIN telegram_log :
                   telegram_log[j].alert_id = i /\ telegram_log[j].ok
    /\ \A j \in DOMAIN telegram_log : telegram_log[j].alert_id \in DOMAIN db_alerts
    /\ (last.op = "process_trade" /\ Len(db_alerts) = last.alerts_before)
          => Len(telegram_log) = last.sends_before
    /\ ~config.telegram =>
          /\ telegram_log = <<>>
          /\ \A i \in DOMAIN db_alerts : db_alerts[i].sent_to_telegram = 0

\* a first alert was delivered and marked, and the save_alert of a second
\* alert at or above the floor failed afterwards
C38_Witness ==
    /\ Len(db_alerts) = 1
    /\ db_alerts[1].sent_to_telegram = 1
    /\ last.op = "process_trade"
    /\ last.alert # NoneVal
    /\ severity_levels[Val(last.alert).severity] >= severity_levels[config.MIN_SEVERITY]
    /\ last.alerts_before = 1
    /\ Len(telegram_log) = 1

----------------------------------------------------------------------------
(* Properties of the wallet without profile *)

\* C39: when a base tier fired and analyze_wallet returned no profile, no
\* escalation rule is applied: the alert has the base severity of its value
\* tier, no flag in its reason, trade count 0 and no win rate
C39_NoProfileNoEscalation ==
    (Classified /\ last.alert # NoneVal /\ last.wallet_stats = NoneVal) =>
        /\ Val(last.alert).severity = base_tier(last.usdc_value).severity
        /\ Val(last.alert).reason.flags = <<>>
        /\ Val(last.alert).wallet_total_trades = 0
        /\ Val(last.alert).wallet_win_rate = NoneVal

\* a LARGE_BET alert for a wallet without profile stays MEDIUM
C39_Witness ==
    /\ last.op = "generate_alert"
    /\ last.usdc_value = LARGE_BET
    /\ last.wallet_stats = NoneVal
    /\ last.alert # NoneVal
    /\ Val(last.alert).severity = "MEDIUM"
    /\ Val(last.alert).reason.flags = <<>>
    /\ Val(last.alert).wallet_age_hours = NoneVal

----------------------------------------------------------------------------
(* Properties of the forced analysis *)

\* the answers of the activity API without a trade record: the request
\* failed (get_wallet_activity returns []), or it answered no TRADE
NoTradeResponses(w) ==
    {resp \in Responses(w) : SelectSeq(resp.activity, IsTrade) = <<>>}

\* C40: a forced analyze_wallet whose activity fetch fails or answers no
\* trade record returns None, and leaves the wallet cache, the cache
\* timestamps and the wallet_stats rows as they were
C40_FailedForcedAnalysisKeepsProfile ==
    /\ [](\A w \in Wallets : \A resp \in NoTradeResponses(w) : \A dbOk \in BOOLEAN :
             /\ analyze_wallet(WA, w, TRUE, now, resp, dbOk).result = NoneVal
             /\ analyze_wallet(WA, w, TRUE, now, resp, dbOk).wa = WA)
    /\ [][(last'.op = "analyze_wallet" /\ last'.forced /\ last'.wallet_stats = NoneVal) =>
             UNCHANGED <<wallet_cache, cache_timestamps, db_wallet_stats>>]_vars

\* a forced analysis has returned None for a wallet whose profile is cached
\* and stored
C40_Witness ==
    /\ last.op = "analyze_wallet"
    /\ last.forced
    /\ last.fetched
    /\ last.wallet_stats = NoneVal
    /\ \A w \in Wallets :
          /\ wallet_cache[w] # NoneVal
          /\ cache_timestamps[w] # NoneVal
          /\ db_wallet_stats[w] # NoneVal
====
